---- MODULE Spec2Model ----
(***************************************************************************)
(* Model of the motion library orchestration layer, mllite/ml.c:           *)
(* serial start/stop, the calibration encoder, the sensor enable           *)
(* controller, the interrupt driven data pump and the motion resetter.     *)
(* Every handler of ml.c is one action; the services ml.c calls in other   *)
(* files (device memory, FIFO, state machine, transport) are the           *)
(* environment: an operation logs each call it makes, and a call fails     *)
(* when the fault scenario of the run names it.                            *)
(***************************************************************************)
EXTENDS Integers, Sequences, FiniteSets, TLC

(***************************************************************************)
(* Bounds of the model.                                                    *)
(***************************************************************************)
\* capacity of the interrupt callback registry used by the model
MAX_INTERRUPT_PROCESSES == 2

(***************************************************************************)
(* IEEE-754 single precision, as far as the calibration code uses it:      *)
(* a float is sign * m * 2^e with m = 0 or 2^23 <= m < 2^24, every          *)
(* operation rounds to nearest, ties to even.                              *)
(***************************************************************************)
P23 == 8388608
P24 == 16777216

RECURSIVE Pow2(_)
Pow2(n) == IF n = 0 THEN 1 ELSE 2 * Pow2(n - 1)

Abs(x) == IF x < 0 THEN -x ELSE x

FZero == [s |-> 1, m |-> 0, e |-> 0]

RECURSIVE ShiftOf(_)
ShiftOf(M) == IF M < P24 THEN 0 ELSE 1 + ShiftOf(M \div 2)

RECURSIVE FNormUp(_, _, _)
FNormUp(s, M, e) == IF M >= P23 THEN [s |-> s, m |-> M, e |-> e]
                    ELSE FNormUp(s, 2 * M, e - 1)

\* the float nearest to s * (M + st) * 2^e, st standing for a nonzero
\* remainder below the last bit of M
FRound(s, M, e, st) ==
    IF M = 0 THEN FZero
    ELSE IF M < P24 THEN FNormUp(s, M, e)
    ELSE LET k    == ShiftOf(M)
             q    == M \div Pow2(k)
             r    == M % Pow2(k)
             half == Pow2(k - 1)
             up   == \/ r > half
                     \/ r = half /\ st
                     \/ r = half /\ ~st /\ q % 2 = 1
             q2   == IF up THEN q + 1 ELSE q
         IN  IF q2 = P24 THEN [s |-> s, m |-> P23, e |-> e + k + 1]
             ELSE [s |-> s, m |-> q2, e |-> e + k]

\* (float)n for an integer n
FromInt(n) == FRound(IF n < 0 THEN -1 ELSE 1, Abs(n), 0, FALSE)

FMul(a, b) ==
    IF a.m = 0 \/ b.m = 0 THEN FZero
    ELSE LET a1  == a.m \div 4096
             a0  == a.m % 4096
             b1  == b.m \div 4096
             b0  == b.m % 4096
             mid == a1 * b0 + a0 * b1
             low == (mid % 4096) * 4096 + a0 * b0
             H   == a1 * b1 + mid \div 4096 + low \div P24
             L   == low % P24
         IN  FRound(a.s * b.s, H * 64 + L \div 262144, a.e + b.e + 18,
                    L % 262144 # 0)

RECURSIVE LDiv(_, _, _, _)
LDiv(r, d, n, q) ==
    IF n = 0 THEN <<q, r>>
    ELSE IF 2 * r >= d THEN LDiv(2 * r - d, d, n - 1, 2 * q + 1)
         ELSE LDiv(2 * r, d, n - 1, 2 * q)

\* a / b, b nonzero
FDiv(a, b) ==
    IF a.m = 0 THEN FZero
    ELSE LET qr == LDiv(a.m % b.m, b.m, 25, a.m \div b.m)
         IN  FRound(a.s * b.s, qr[1], a.e - b.e - 25, qr[2] # 0)

\* a + b for operands of the same sign
FAdd(a, b) ==
    IF a.m = 0 THEN b
    ELSE IF b.m = 0 THEN a
    ELSE LET hi == IF a.e >= b.e THEN a ELSE b
             lo == IF a.e >= b.e THEN b ELSE a
             d  == hi.e - lo.e
             B  == IF d >= 27 THEN 0 ELSE (lo.m * 8) \div Pow2(d)
             st == IF d >= 27 THEN TRUE ELSE (lo.m * 8) % Pow2(d) # 0
         IN  FRound(hi.s, hi.m * 8 + B, hi.e - 3, st)

\* (long)a : truncation toward zero
FTrunc(a) ==
    IF a.m = 0 THEN 0
    ELSE IF a.e >= 0 THEN a.s * a.m * Pow2(a.e)
    ELSE IF -a.e >= 24 THEN 0
    ELSE a.s * (a.m \div Pow2(-a.e))


(***************************************************************************)
(* Constants of the headers ml.c includes.                                 *)
(***************************************************************************)
INV_STATE_SERIAL_CLOSED == 0
INV_STATE_SERIAL_OPENED == 1
INV_STATE_DMP_OPENED    == 2
INV_STATE_DMP_STARTED   == 3
States == INV_STATE_SERIAL_CLOSED .. INV_STATE_DMP_STARTED

INV_SUCCESS                            == "INV_SUCCESS"
INV_ERROR_SM_IMPROPER_STATE            == "INV_ERROR_SM_IMPROPER_STATE"
INV_ERROR_INVALID_PARAMETER            == "INV_ERROR_INVALID_PARAMETER"
INV_ERROR_FEATURE_NOT_IMPLEMENTED      == "INV_ERROR_FEATURE_NOT_IMPLEMENTED"
INV_ERROR_SERIAL_DEVICE_NOT_RECOGNIZED == "INV_ERROR_SERIAL_DEVICE_NOT_RECOGNIZED"
\* the process died on a NULL dereference
SIGSEGV == "SIGSEGV"

INV_MOTION    == 1
INV_NO_MOTION == 2

\* the DMP opcodes, named after their value
DINAC9 == 201
DINA2C == 44
DINACB == 203
DINA36 == 54
DINA56 == 86
DINA76 == 118
DINA4C == 76
DINACD == 205
DINA6C == 108
DINA26 == 38
DINA46 == 70
DINA66 == 102
DINAD8 == 216
DINA0C == 12
DINAFE == 254
DINA80 == 128
DINA2D == 45
DINA55 == 85
DINA7D == 125
DINA35 == 53
DINA3D == 61

\* sensor masks are sets of bit names
INV_THREE_AXIS_GYRO     == {"INV_X_GYRO", "INV_Y_GYRO", "INV_Z_GYRO"}
INV_DMP_PROCESSOR       == {"INV_DMP_PROCESSOR"}
INV_THREE_AXIS_ACCEL    == {"INV_X_ACCEL", "INV_Y_ACCEL", "INV_Z_ACCEL"}
INV_THREE_AXIS_COMPASS  == {"INV_X_COMPASS", "INV_Y_COMPASS", "INV_Z_COMPASS"}
INV_THREE_AXIS_PRESSURE == {"INV_X_PRESSURE", "INV_Y_PRESSURE", "INV_Z_PRESSURE"}
AllSensorBits == INV_THREE_AXIS_GYRO \cup INV_DMP_PROCESSOR
                 \cup INV_THREE_AXIS_ACCEL \cup INV_THREE_AXIS_COMPASS
                 \cup INV_THREE_AXIS_PRESSURE

GyroKeys    == {"KEY_FCFG_1", "KEY_FCFG_3", "KEY_D_0_104", "KEY_D_0_24"}
AccelKeys   == {"KEY_D_1_152", "KEY_FCFG_2", "KEY_FCFG_7", "KEY_D_0_108"}
keyList     == << "KEY_CPASS_MTX_00", "KEY_CPASS_MTX_01", "KEY_CPASS_MTX_02",
                  "KEY_CPASS_MTX_10", "KEY_CPASS_MTX_11", "KEY_CPASS_MTX_12",
                  "KEY_CPASS_MTX_20", "KEY_CPASS_MTX_21", "KEY_CPASS_MTX_22" >>
CompassKeys == {keyList[i] : i \in 1..9}
MotionKeys  == {"KEY_CFG_18", "KEY_D_1_106", "KEY_D_1_96", "KEY_D_0_96"}
OtherKeys   == {"KEY_D_1_236", "KEY_CFG_7", "KEY_CFG_6"}
BiasKeys    == {"KEY_FCFG_5", "KEY_D_0_163"}
CalibrationKeys == GyroKeys \cup AccelKeys \cup CompassKeys
Keys == CalibrationKeys \cup MotionKeys \cup OtherKeys \cup BiasKeys

(***************************************************************************)
(* The environment: external calls, their log and their faults.            *)
(***************************************************************************)
\* one entry of the call log: the service called, its symbolic argument, its
\* data bytes, its mask arguments and the result it handed back
Call(fn, key, data, s1, s2, res) ==
    [fn |-> fn, key |-> key, data |-> data, s1 |-> s1, s2 |-> s2, res |-> res]

\* a fault scenario orc is the set of the external calls that fail, each
\* named by the service and its symbolic argument; a failing call hands back
\* an error code of its own
Sig(fn, key) == [fn |-> fn, key |-> key]
NoFault == {}
Fails(orc, fn, key) == Sig(fn, key) \in orc
ErrOf(fn, key) == "INV_ERROR:" \o fn \o ":" \o key

\* a call of an external service that returns a result
Ext(m, orc, fn, key, data, s1, s2) ==
    LET r == IF Fails(orc, fn, key) THEN ErrOf(fn, key) ELSE INV_SUCCESS
    IN  [m |-> [m EXCEPT !.calls = Append(@, Call(fn, key, data, s1, s2, r))],
         r |-> r]

\* a call of an external service that returns nothing
ExtVoid(m, fn, key, data, s1, s2) ==
    [m EXCEPT !.calls = Append(@, Call(fn, key, data, s1, s2, "void"))]

\* sequencing: the rest F runs only when the step x succeeded
Bind(x, F(_)) == IF x.r # INV_SUCCESS THEN x ELSE F(x.m)

Ret(m, r) == [m |-> m, r |-> r]

inv_set_mpu_memory(m, orc, key, bytes) ==
    LET x == Ext(m, orc, "inv_set_mpu_memory", key, bytes, {}, {})
    IN  IF x.r = INV_SUCCESS
        THEN [m |-> [x.m EXCEPT !.mem[key] = bytes], r |-> x.r]
        ELSE x

inv_int32_to_big8(x) ==
    << (x \div 16777216) % 256, (x \div 65536) % 256, (x \div 256) % 256, x % 256 >>


(***************************************************************************)
(* Orientation scalar of the accelerometer (ml.c 111-148).                 *)
(***************************************************************************)
\* a variant, not the code's: a row of zeros counts as axis 2 without sign
RowToScaleZeroAsAxis2(row) ==
    IF row[1] > 0 THEN 0
    ELSE IF row[1] < 0 THEN 4
    ELSE IF row[2] > 0 THEN 1
    ELSE IF row[2] < 0 THEN 5
    ELSE IF row[3] < 0 THEN 6
    ELSE 2

\* row is a sequence of 3 entries
inv_row_2_scale(row) ==
    IF row[1] > 0 THEN 0
    ELSE IF row[1] < 0 THEN 4
    ELSE IF row[2] > 0 THEN 1
    ELSE IF row[2] < 0 THEN 5
    ELSE IF row[3] > 0 THEN 2
    ELSE IF row[3] < 0 THEN 6
    ELSE 7

\* a variant, not the code's: each row code is taken relative to the row
\* the identity matrix has in its place
ScalarRelativeToIdentity(mtx) ==
    inv_row_2_scale(SubSeq(mtx, 1, 3))
    + 8 * ((inv_row_2_scale(SubSeq(mtx, 4, 6)) + 7) % 8)
    + 64 * ((inv_row_2_scale(SubSeq(mtx, 7, 9)) + 6) % 8)

\* ml.c 143-145: the three row codes, 3 bits each
inv_orientation_matrix_to_scalar(mtx) ==
    inv_row_2_scale(SubSeq(mtx, 1, 3))
    + 8 * inv_row_2_scale(SubSeq(mtx, 4, 6))
    + 64 * inv_row_2_scale(SubSeq(mtx, 7, 9))

(***************************************************************************)
(* Gyroscope calibration (ml.c 250-358).                                   *)
(***************************************************************************)
\* a variant, not the code's: the calibrations are let through in
\* DMP_STARTED too
CalibrationStateFromOpened(state) == state >= INV_STATE_DMP_OPENED

\* ml.c 266, 402: the state the calibration operations require
CalibrationStateOk(state) == state = INV_STATE_DMP_OPENED


\* ml.c 269-273: the declared range adjusted by the sensitivity trim
GyroRange(range, gyro_sens_trim) ==
    IF gyro_sens_trim # 0
    THEN FMul(range, FDiv(FDiv(FromInt(32768), FromInt(250)),
                          FromInt(gyro_sens_trim)))
    ELSE range

\* ml.c 279, 424, 511: (long)(scale * orientation[kk] * (1L << 30))
CalEntry(scale, o) == FTrunc(FMul(FMul(scale, FromInt(o)), FromInt(1073741824)))

\* a variant, not the code's: the last entry wins when it is not smaller
\* than the one before it
GyroRowAxisLastOnTie(gyro_orient, i) ==
    LET a0   == gyro_orient[1 + 3 * i]
        a1   == gyro_orient[2 + 3 * i]
        a2   == gyro_orient[3 + 3 * i]
        s0   == IF a0 < 0 THEN 1 ELSE 0
        c1   == Abs(a1) > Abs(a0)
        s1   == IF c1 /\ a1 < 0 THEN 1 ELSE s0
        c2   == Abs(a2) >= Abs(a1)
    IN  [maxVal  |-> IF c2 THEN 2 ELSE IF c1 THEN 1 ELSE 0,
         tmpSign |-> IF c2 THEN (IF a2 < 0 THEN 1 ELSE 0) ELSE s1]

\* ml.c 292-308: the dominant axis of row i (0..2) of gyro_orient and its sign
GyroRowAxis(gyro_orient, i) ==
    LET a0   == gyro_orient[1 + 3 * i]
        a1   == gyro_orient[2 + 3 * i]
        a2   == gyro_orient[3 + 3 * i]
        s0   == IF a0 < 0 THEN 1 ELSE 0
        c1   == Abs(a1) > Abs(a0)
        s1   == IF c1 /\ a1 < 0 THEN 1 ELSE s0
        c2   == Abs(a2) > Abs(a1)
    IN  [maxVal  |-> IF c2 THEN 2 ELSE IF c1 THEN 1 ELSE 0,
         tmpSign |-> IF c2 THEN (IF a2 < 0 THEN 1 ELSE 0) ELSE s1]

\* b | 0x01
OrBit0(b) == IF b % 2 = 1 THEN b ELSE b + 1

\* ml.c 284-322: the six opcode bytes regs[0..5]
GyroRegs(gyro_orient) ==
    LET base == <<DINAC9, DINA2C, DINACB>>
        comp == <<DINA36, DINA56, DINA76>>
        ax(i) == GyroRowAxis(gyro_orient, i)
    IN  [k \in 1..6 |->
            IF k <= 3 THEN base[ax(k - 1).maxVal + 1]
            ELSE IF ax(k - 4).tmpSign = 1
                 THEN OrBit0(comp[k - 3])
                 ELSE comp[k - 3]]

\* ml.c 335-336: (long)(((long long)gyro_sens * 767603923LL) / 1073741824LL)
GyroSf(gyro_sens) ==
    LET x   == Abs(gyro_sens)
        x1  == x \div 32768
        x0  == x % 32768
        c1  == 23425
        c0  == 13523
        mid == x1 * c0 + x0 * c1
        low == x0 * c0
        q   == x1 * c1 + (mid + low \div 32768) \div 32768
    IN  IF gyro_sens < 0 THEN -q ELSE q

\* the hexadecimal digits of 23832619764371
SfDividend == <<1, 5, 10, 12, 15, 6, 13, 5, 12, 10, 9, 3>>

RECURSIVE BigDiv(_, _, _, _, _)
BigDiv(digits, i, d, q, r) ==
    IF i > Len(digits) THEN q
    ELSE LET r2 == r * 16 + digits[i]
         IN  BigDiv(digits, i + 1, d, q * 16 + r2 \div d, r2 % d)

\* ml.c 345-349: (long)((long long)23832619764371LL / gyro_sens), 0 for 0
GyroSf2(gyro_sens) ==
    IF gyro_sens # 0
    THEN (IF gyro_sens < 0 THEN -1 ELSE 1)
         * BigDiv(SfDividend, 1, Abs(gyro_sens), 0, 0)
    ELSE 0

\* range is a float, orientation a sequence of 9 entries of {-1, 0, 1}
inv_set_gyro_calibration(m, cfg, orc, range, orientation) ==
    IF ~CalibrationStateOk(m.state) THEN Ret(m, INV_ERROR_SM_IMPROPER_STATE)
    ELSE
    LET rng   == GyroRange(range, cfg.gyro_sens_trim)
        scale == FDiv(rng, FromInt(32768))
        sens  == FTrunc(FMul(rng, FromInt(32768)))
        go    == [kk \in 1..9 |-> orientation[kk] * 1073741824]
        regs  == GyroRegs(go)
        m0    == [m EXCEPT !.trace = Append(@, "inv_set_gyro_calibration"),
                           !.obj.gyro_sens = sens,
                           !.obj.gyro_cal =
                               [kk \in 1..9 |-> CalEntry(scale, orientation[kk])],
                           !.obj.gyro_orient = go]
    IN  Bind(inv_set_mpu_memory(m0, orc, "KEY_FCFG_1", SubSeq(regs, 1, 3)),
        LAMBDA m1:
        Bind(inv_set_mpu_memory(m1, orc, "KEY_FCFG_3", SubSeq(regs, 4, 6)),
        LAMBDA m2:
        LET m3 == [m2 EXCEPT !.obj.gyro_sf = GyroSf(m2.obj.gyro_sens)]
        IN
        Bind(inv_set_mpu_memory(m3, orc, "KEY_D_0_104",
                                inv_int32_to_big8(m3.obj.gyro_sf)),
        LAMBDA m4:
        Bind(inv_set_mpu_memory(m4, orc, "KEY_D_0_24",
                                inv_int32_to_big8(GyroSf2(m4.obj.gyro_sens))),
        LAMBDA m5: Ret(m5, INV_SUCCESS)))))


(***************************************************************************)
(* Accelerometer calibration (ml.c 391-469).                               *)
(***************************************************************************)
\* ml.c 418, 428-430: tmp[idx] of the 3-entry table; idx = 3 reads past its
\* end and yields whatever byte ub lies there
AccelAxisOpcode(idx, ub) ==
    IF idx = 3 THEN ub ELSE <<DINA4C, DINACD, DINA6C>>[idx + 1]

\* ml.c 427-430: the bytes written to KEY_FCFG_2
AccelRegs2(orient, ub) ==
    << AccelAxisOpcode(orient % 4, ub),
       AccelAxisOpcode((orient \div 8) % 4, ub),
       AccelAxisOpcode((orient \div 64) % 4, ub) >>

\* ml.c 437-446: the bytes written to KEY_FCFG_7
AccelRegs7(orient) ==
    << IF (orient \div 4) % 2 = 1 THEN OrBit0(DINA26) ELSE DINA26,
       IF (orient \div 32) % 2 = 1 THEN OrBit0(DINA46) ELSE DINA46,
       IF (orient \div 256) % 2 = 1 THEN OrBit0(DINA66) ELSE DINA66 >>

\* ml.c 455-461: the scale factor as 2 big-endian bytes
AccelSfBytes(accel_sens) ==
    LET sf == IF accel_sens # 0 THEN 1073741824 \div accel_sens ELSE 0
    IN  << (sf \div 256) % 256, sf % 256 >>

\* ml.c 417-453: the part run for an accelerometer with a nonzero id
AccelOrientPart(m, cfg, orc, scale, orientation, ub) ==
    IF cfg.accel_id = 0 THEN Ret(m, INV_SUCCESS)
    ELSE
    LET orient == inv_orientation_matrix_to_scalar(orientation)
        m0 == [m EXCEPT !.obj.accel_cal =
                            [kk \in 1..9 |-> CalEntry(scale, orientation[kk])]]
    IN  Bind(inv_set_mpu_memory(m0, orc, "KEY_FCFG_2", AccelRegs2(orient, ub)),
        LAMBDA m1:
        inv_set_mpu_memory(m1, orc, "KEY_FCFG_7", AccelRegs7(orient)))

inv_set_accel_calibration(m, cfg, orc, range, orientation, ub) ==
    IF ~CalibrationStateOk(m.state) THEN Ret(m, INV_ERROR_SM_IMPROPER_STATE)
    ELSE
    LET scale == FDiv(range, FromInt(32768))
        m0    == [m EXCEPT !.trace = Append(@, "inv_set_accel_calibration")]
        w0    == IF cfg.key_D_1_152
                 THEN inv_set_mpu_memory(m0, orc, "KEY_D_1_152", <<0, 0, 0, 0>>)
                 ELSE Ret(m0, INV_SUCCESS)
    IN  Bind(w0,
        LAMBDA m1:
        LET m2 == IF scale.m = 0 THEN [m1 EXCEPT !.obj.accel_sens = 0] ELSE m1
        IN
        IF ~cfg.accel_present THEN Ret(m2, SIGSEGV)
        ELSE
        Bind(AccelOrientPart(m2, cfg, orc, scale, orientation, ub),
        LAMBDA m3:
        inv_set_mpu_memory(m3, orc, "KEY_D_0_108",
                           AccelSfBytes(m3.obj.accel_sens))))

(***************************************************************************)
(* Compass calibration (ml.c 502-541).                                     *)
(***************************************************************************)
\* ml.c 517-535: the pattern of one matrix cell
CompassCellReg(o) ==
    IF o = 1 THEN <<64, 0, 0, 0>>
    ELSE IF o = -1 THEN <<192, 0, 0, 0>>
    ELSE <<0, 0, 0, 0>>

\* ml.c 528-537: the writes of the cells kk..9, their results dropped
RECURSIVE CompassCells(_, _, _, _)
CompassCells(m, orc, orientation, kk) ==
    IF kk > 9 THEN m
    ELSE CompassCells(
             inv_set_mpu_memory(m, orc, keyList[kk],
                                CompassCellReg(orientation[kk])).m,
             orc, orientation, kk + 1)

inv_set_compass_calibration(m, cfg, orc, range, orientation) ==
    LET scale == FDiv(range, FromInt(32768))
        m0 == [m EXCEPT !.trace = Append(@, "inv_set_compass_calibration"),
                        !.obj.compass_cal =
                            [kk \in 1..9 |-> CalEntry(scale, orientation[kk])],
                        !.obj.compass_sens =
                            FTrunc(FMul(scale, FromInt(1073741824)))]
    IN  IF cfg.key_CPASS_MTX
        THEN Ret(CompassCells(m0, orc, orientation, 1), INV_SUCCESS)
        ELSE Ret(m0, INV_SUCCESS)

(***************************************************************************)
(* Apply-all (ml.c 548-625).                                               *)
(***************************************************************************)
\* a variant, not the code's: an unknown setting keeps the default range
GyroScaleOrDefault(full_scale) ==
    CASE full_scale = "MPU_FS_250DPS"  -> 250
      [] full_scale = "MPU_FS_500DPS"  -> 500
      [] full_scale = "MPU_FS_1000DPS" -> 1000
      [] OTHER -> 2000

\* ml.c 572-590: the range of a full-scale setting, 0 for an unknown one
GyroScaleOf(full_scale) ==
    CASE full_scale = "MPU_FS_250DPS"  -> 250
      [] full_scale = "MPU_FS_500DPS"  -> 500
      [] full_scale = "MPU_FS_1000DPS" -> 1000
      [] full_scale = "MPU_FS_2000DPS" -> 2000
      [] OTHER -> 0

\* ml.c 593, 599: a range of mantissa and fraction (in 1/10000) as a float
RANGE_FIXEDPOINT_TO_FLOAT(rng) ==
    FAdd(FromInt(rng.mantissa), FDiv(FromInt(rng.fraction), FromInt(10000)))

Zero9 == [kk \in 1..9 |-> 0]

\* a variant, not the code's: the nominal sensitivities are set only in the
\* state in which the calibrations run
ApplySensInDmpOpened(m, cfg) ==
    IF m.state # INV_STATE_DMP_OPENED THEN m
    ELSE
    LET accelScale == IF cfg.accel_present
                      THEN RANGE_FIXEDPOINT_TO_FLOAT(cfg.accel_range) ELSE FZero
        magScale   == IF cfg.compass_present
                      THEN RANGE_FIXEDPOINT_TO_FLOAT(cfg.compass_range) ELSE FZero
        m1 == IF cfg.accel_present
              THEN [m EXCEPT !.obj.accel_sens =
                        FTrunc(FMul(accelScale, FromInt(65536))) \div 2]
              ELSE m
    IN  IF cfg.compass_present
        THEN [m1 EXCEPT !.obj.compass_sens =
                  FTrunc(FMul(magScale, FromInt(32768)))]
        ELSE m1

\* ml.c 592-601: the nominal sensitivities
ApplySens(m, cfg) ==
    LET accelScale == IF cfg.accel_present
                      THEN RANGE_FIXEDPOINT_TO_FLOAT(cfg.accel_range) ELSE FZero
        magScale   == IF cfg.compass_present
                      THEN RANGE_FIXEDPOINT_TO_FLOAT(cfg.compass_range) ELSE FZero
        m1 == IF cfg.accel_present
              THEN [m EXCEPT !.obj.accel_sens =
                        FTrunc(FMul(accelScale, FromInt(65536))) \div 2]
              ELSE m
    IN  IF cfg.compass_present
        THEN [m1 EXCEPT !.obj.compass_sens =
                  FTrunc(FMul(magScale, FromInt(32768)))]
        ELSE m1

\* a variant, not the code's: the calibrations run in DMP_STARTED too
ApplyRunsCalibrationFromOpened(state) == state >= INV_STATE_DMP_OPENED

\* ml.c 603: the state in which apply-all runs the calibrations
ApplyRunsCalibration(state) == state = INV_STATE_DMP_OPENED

\* a variant, not the code's: a calibration that fails does not stop the
\* ones after it, and the first error is returned at the end
ApplyCalibrationsNoStop(m, cfg, orc, ub) ==
    LET accelScale == IF cfg.accel_present
                      THEN RANGE_FIXEDPOINT_TO_FLOAT(cfg.accel_range) ELSE FZero
        magScale   == IF cfg.compass_present
                      THEN RANGE_FIXEDPOINT_TO_FLOAT(cfg.compass_range) ELSE FZero
        g == inv_set_gyro_calibration(m, cfg, orc,
                 FromInt(GyroScaleOf(cfg.full_scale)), cfg.orientation)
        a == IF cfg.accel_present
             THEN inv_set_accel_calibration(g.m, cfg, orc, accelScale,
                                            cfg.accel_orientation, ub)
             ELSE Ret(g.m, INV_SUCCESS)
        c == IF cfg.compass_present
             THEN inv_set_compass_calibration(a.m, cfg, orc, magScale,
                                              cfg.compass_orientation)
             ELSE Ret(a.m, INV_SUCCESS)
    IN  Ret(c.m, IF g.r # INV_SUCCESS THEN g.r
                 ELSE IF a.r # INV_SUCCESS THEN a.r ELSE c.r)

\* ml.c 603-623: the calibrations in their order
ApplyCalibrations(m, cfg, orc, ub) ==
    LET accelScale == IF cfg.accel_present
                      THEN RANGE_FIXEDPOINT_TO_FLOAT(cfg.accel_range) ELSE FZero
        magScale   == IF cfg.compass_present
                      THEN RANGE_FIXEDPOINT_TO_FLOAT(cfg.compass_range) ELSE FZero
        accelCal   == IF cfg.accel_present THEN cfg.accel_orientation ELSE Zero9
        magCal     == IF cfg.compass_present THEN cfg.compass_orientation ELSE Zero9
    IN  Bind(inv_set_gyro_calibration(m, cfg, orc,
                 FromInt(GyroScaleOf(cfg.full_scale)), cfg.orientation),
        LAMBDA m1:
        Bind(IF cfg.accel_present
             THEN inv_set_accel_calibration(m1, cfg, orc, accelScale, accelCal, ub)
             ELSE Ret(m1, INV_SUCCESS),
        LAMBDA m2:
        IF cfg.compass_present
        THEN inv_set_compass_calibration(m2, cfg, orc, magScale, magCal)
        ELSE Ret(m2, INV_SUCCESS)))

inv_apply_calibration(m, cfg, orc, ub) ==
    IF GyroScaleOf(cfg.full_scale) = 0 THEN Ret(m, INV_ERROR_INVALID_PARAMETER)
    ELSE
    LET m1 == ApplySens(m, cfg)
    IN  IF ApplyRunsCalibration(m1.state)
        THEN ApplyCalibrations(m1, cfg, orc, ub)
        ELSE Ret(m1, INV_SUCCESS)


(***************************************************************************)
(* Motion-state resetter (ml.c 751-792).                                   *)
(***************************************************************************)
\* the motion-state setter of the supervisor: records the state and flags
\* a change of it
inv_set_motion_state(m, ms) ==
    LET m1 == ExtVoid(m, "inv_set_motion_state", "", <<ms>>, {}, {})
    IN  IF m1.obj.motion_state = ms THEN m1
        ELSE [m1 EXCEPT !.obj.motion_state = ms, !.obj.flag_motion_state_change = ms]

\* a variant, not the code's: the time of the first reset is kept
ResetMotionHostFirstTime(obj, tick) ==
    [obj EXCEPT !.motion_state = INV_MOTION,
                !.flag_motion_state_change = INV_MOTION,
                !.no_motion_accel_time = IF @ = 0 THEN tick ELSE @]

\* a variant, not the code's: the host side is left to the setter that runs
\* after the last write
ResetMotionHostTimeOnly(obj, tick) == [obj EXCEPT !.no_motion_accel_time = tick]

\* ml.c 756-758: the host side of the reset
ResetMotionHost(obj, tick) ==
    [obj EXCEPT !.motion_state = INV_MOTION,
                !.flag_motion_state_change = INV_MOTION,
                !.no_motion_accel_time = tick]

\* a variant, not the code's: the zero block is written before the
\* threshold of the motion duration
ResetMotionZeroBlockFirst(m, orc, tick) ==
    LET m0 == [ExtVoid(m, "inv_get_tick_count", "", <<tick>>, {}, {})
                  EXCEPT !.trace = Append(@, "inv_reset_motion"),
                         !.obj = ResetMotionHost(m.obj, tick)]
        md == m0.obj.motion_duration
    IN  Bind(inv_set_mpu_memory(m0, orc, "KEY_CFG_18",
                                <<DINAD8 + 2, DINA0C, DINAD8 + 1>>),
        LAMBDA m1:
        Bind(inv_set_mpu_memory(m1, orc, "KEY_D_1_96",
                                <<0, 0, 0, 0, 0, 0, 0, 0>>),
        LAMBDA m2:
        Bind(inv_set_mpu_memory(m2, orc, "KEY_D_1_106",
                                <<(md \div 256) % 256, md % 256>>),
        LAMBDA m3:
        Bind(inv_set_mpu_memory(m3, orc, "KEY_D_0_96",
                                inv_int32_to_big8(1073741824)),
        LAMBDA m4: Ret(inv_set_motion_state(m4, INV_MOTION), INV_SUCCESS)))))

\* ml.c 751-792
inv_reset_motion(m, orc, tick) ==
    LET m0 == [ExtVoid(m, "inv_get_tick_count", "", <<tick>>, {}, {})
                  EXCEPT !.trace = Append(@, "inv_reset_motion"),
                         !.obj = ResetMotionHost(m.obj, tick)]
        md == m0.obj.motion_duration
    IN  Bind(inv_set_mpu_memory(m0, orc, "KEY_CFG_18",
                                <<DINAD8 + 2, DINA0C, DINAD8 + 1>>),
        LAMBDA m1:
        Bind(inv_set_mpu_memory(m1, orc, "KEY_D_1_106",
                                <<(md \div 256) % 256, md % 256>>),
        LAMBDA m2:
        Bind(inv_set_mpu_memory(m2, orc, "KEY_D_1_96",
                                <<0, 0, 0, 0, 0, 0, 0, 0>>),
        LAMBDA m3:
        Bind(inv_set_mpu_memory(m3, orc, "KEY_D_0_96",
                                inv_int32_to_big8(1073741824)),
        LAMBDA m4: Ret(inv_set_motion_state(m4, INV_MOTION), INV_SUCCESS)))))

(***************************************************************************)
(* Interrupt-driven data pump (ml.c 739-746, 811-853).                     *)
(***************************************************************************)
\* ml.c 742-745: the callbacks of the slots kk.. (slots count from 1 here)
RECURSIVE RunCbFrom(_, _)
RunCbFrom(m, kk) ==
    IF kk > m.cb.numInterruptProcesses THEN m
    ELSE RunCbFrom(
             IF m.cb.processInterruptCb[kk] # "NULL"
             THEN ExtVoid(m, "processInterruptCb", m.cb.processInterruptCb[kk],
                          <<kk>>, {"&inv_obj"}, {})
             ELSE m,
             kk + 1)

\* a variant, not the code's: the loop starts at the second slot
RunCbFromSecondSlot(m) == RunCbFrom(m, 2)

inv_run_dmp_interupt_cb(m) == RunCbFrom(m, 1)

\* a variant, not the code's: update() runs from DMP_OPENED on
UpdateStateFromOpened(state) == state >= INV_STATE_DMP_OPENED

\* ml.c 819: the state update() requires
UpdateStateOk(state) == state = INV_STATE_DMP_STARTED

\* a variant, not the code's: the large budget whenever a sensor is asked for
UpdateBudgetAlwaysLarge(req) == IF req = {} THEN 1 ELSE 100

\* ml.c 823-827: the number of packets to process
UpdateBudget(req) == IF INV_DMP_PROCESSOR \subseteq req THEN 100 ELSE 1

\* ml.c 837-845: read one trigger and clear it when it is set
CheckTrigger(m, src) ==
    LET m1 == ExtVoid(m, "inv_get_interrupt_trigger", src,
                      <<IF m.trig[src] THEN 1 ELSE 0>>, {}, {})
    IN  IF m.trig[src]
        THEN [ExtVoid(m1, "inv_clear_interrupt_trigger", src, <<>>, {}, {})
                 EXCEPT !.trig[src] = FALSE]
        ELSE m1

\* a variant, not the code's: the callbacks run when either source fired
UpdateDataAnySource(m, orc) ==
    IF ~UpdateStateOk(m.state) THEN Ret(m, INV_ERROR_SM_IMPROPER_STATE)
    ELSE
    Bind(Ext(m, orc, "inv_read_and_process_fifo", "", <<UpdateBudget(m.req)>>,
             {}, {}),
    LAMBDA m1:
    LET mpu_interrupt == m1.trig["INTSRC_AUX1"] \/ m1.trig["INTSRC_MPU"]
        m2 == CheckTrigger(m1, "INTSRC_AUX1")
        m3 == CheckTrigger(m2, "INTSRC_MPU")
        m4 == IF mpu_interrupt THEN inv_run_dmp_interupt_cb(m3) ELSE m3
    IN  Ext(m4, orc, "inv_get_fifo_status", "", <<>>, {}, {}))

\* ml.c 811-853
inv_update_data(m, orc) ==
    IF ~UpdateStateOk(m.state) THEN Ret(m, INV_ERROR_SM_IMPROPER_STATE)
    ELSE
    Bind(Ext(m, orc, "inv_read_and_process_fifo", "", <<UpdateBudget(m.req)>>,
             {}, {}),
    LAMBDA m1:
    LET mpu_interrupt == m1.trig["INTSRC_MPU"]
        m2 == CheckTrigger(m1, "INTSRC_AUX1")
        m3 == CheckTrigger(m2, "INTSRC_MPU")
        m4 == IF mpu_interrupt THEN inv_run_dmp_interupt_cb(m3) ELSE m3
    IN  Ext(m4, orc, "inv_get_fifo_status", "", <<>>, {}, {}))

(***************************************************************************)
(* Sensor enable / mode controller (ml.c 1148-1275).                       *)
(***************************************************************************)
\* a variant, not the code's: a part of the accelerometer group is let through
PartialGroupButAccel(sensors, group) ==
    /\ group # INV_THREE_AXIS_ACCEL
    /\ (sensors \cap group) # group /\ (sensors \cap group) # {}

\* ml.c 1159-1160 (1168, 1177): the mask covers part of a group only
PartialGroup(sensors, group) ==
    (sensors \cap group) # group /\ (sensors \cap group) # {}

\* a variant, not the code's: the descriptor is looked at for a group that
\* is asked for in part only
MissingSlaveOfPartOnly(sensors, group, get_slave_descr) ==
    (sensors \cap group) # {} /\ (sensors \cap group) # group /\ ~get_slave_descr

\* ml.c 1163-1164 (1172, 1181): a requested group without slave descriptor
MissingSlave(sensors, group, get_slave_descr) ==
    (sensors \cap group) # {} /\ ~get_slave_descr

\* a variant, not the code's: the coverage of all three groups is checked
\* before any slave descriptor
ValidateCoverageFirst(sensors, cfg) ==
    IF \/ PartialGroup(sensors, INV_THREE_AXIS_ACCEL)
       \/ PartialGroup(sensors, INV_THREE_AXIS_COMPASS)
       \/ PartialGroup(sensors, INV_THREE_AXIS_PRESSURE)
    THEN INV_ERROR_FEATURE_NOT_IMPLEMENTED
    ELSE IF \/ MissingSlave(sensors, INV_THREE_AXIS_ACCEL, cfg.accel_get_slave_descr)
            \/ MissingSlave(sensors, INV_THREE_AXIS_COMPASS, cfg.compass_get_slave_descr)
            \/ MissingSlave(sensors, INV_THREE_AXIS_PRESSURE, cfg.pressure_get_slave_descr)
    THEN INV_ERROR_SERIAL_DEVICE_NOT_RECOGNIZED
    ELSE INV_SUCCESS

\* ml.c 1159-1184: the first check that fails, INV_SUCCESS when none does
ValidateSensors(sensors, cfg) ==
    IF PartialGroup(sensors, INV_THREE_AXIS_ACCEL)
    THEN INV_ERROR_FEATURE_NOT_IMPLEMENTED
    ELSE IF MissingSlave(sensors, INV_THREE_AXIS_ACCEL, cfg.accel_get_slave_descr)
    THEN INV_ERROR_SERIAL_DEVICE_NOT_RECOGNIZED
    ELSE IF PartialGroup(sensors, INV_THREE_AXIS_COMPASS)
    THEN INV_ERROR_FEATURE_NOT_IMPLEMENTED
    ELSE IF MissingSlave(sensors, INV_THREE_AXIS_COMPASS, cfg.compass_get_slave_descr)
    THEN INV_ERROR_SERIAL_DEVICE_NOT_RECOGNIZED
    ELSE IF PartialGroup(sensors, INV_THREE_AXIS_PRESSURE)
    THEN INV_ERROR_FEATURE_NOT_IMPLEMENTED
    ELSE IF MissingSlave(sensors, INV_THREE_AXIS_PRESSURE, cfg.pressure_get_slave_descr)
    THEN INV_ERROR_SERIAL_DEVICE_NOT_RECOGNIZED
    ELSE INV_SUCCESS

\* config.apply of ml.c 1193, 1256
ApplyFlag(state) == <<IF state = INV_STATE_DMP_STARTED THEN 1 ELSE 0>>

\* a variant, not the code's: the accelerometer and the FIFO are set up
\* whenever the DMP is asked for
DmpTurnOnWheneverAsked(m, orc, sensors) ==
    IF INV_DMP_PROCESSOR \subseteq sensors
    THEN Bind(Ext(m, orc, "inv_mpu_config_accel", "MPU_SLAVE_CONFIG_ODR_RESUME",
                  ApplyFlag(m.state), {}, {}),
         LAMBDA m1:
         Bind(Ext(m1, orc, "inv_mpu_config_accel", "MPU_SLAVE_CONFIG_IRQ_RESUME",
                  ApplyFlag(m.state), {"MPU_SLAVE_IRQ_TYPE_NONE"}, {}),
         LAMBDA m2:
         Ret(ExtVoid(m2, "inv_init_fifo_hardare", "", <<>>, {}, {}), INV_SUCCESS)))
    ELSE Ret(m, INV_SUCCESS)

\* ml.c 1187-1215: the DMP was off and is turning on
DmpTurnOn(m, orc, sensors) ==
    IF INV_DMP_PROCESSOR \subseteq sensors /\ ~(INV_DMP_PROCESSOR \subseteq m.req)
    THEN Bind(Ext(m, orc, "inv_mpu_config_accel", "MPU_SLAVE_CONFIG_ODR_RESUME",
                  ApplyFlag(m.state), {}, {}),
         LAMBDA m1:
         Bind(Ext(m1, orc, "inv_mpu_config_accel", "MPU_SLAVE_CONFIG_IRQ_RESUME",
                  ApplyFlag(m.state), {"MPU_SLAVE_IRQ_TYPE_NONE"}, {}),
         LAMBDA m2:
         Ret(ExtVoid(m2, "inv_init_fifo_hardare", "", <<>>, {}, {}), INV_SUCCESS)))
    ELSE Ret(m, INV_SUCCESS)

\* a variant, not the code's: the callback is told the new mask only
ModeChangeMasksNewOnly(m, sensors) == [s1 |-> sensors, s2 |-> sensors]

\* ml.c 1218: the masks the callback is called with
ModeChangeMasks(m, sensors) == [s1 |-> m.req, s2 |-> sensors]

\* a variant, not the code's: the result of the callback is dropped
ModeChangeResultDropped(m, orc, sensors) ==
    IF m.obj.mode_change_func # "NULL"
    THEN Ret(Ext(m, orc, "mode_change_func", m.obj.mode_change_func, <<>>,
                 ModeChangeMasks(m, sensors).s1,
                 ModeChangeMasks(m, sensors).s2).m, INV_SUCCESS)
    ELSE Ret(m, INV_SUCCESS)

\* ml.c 1217-1223: the mode-change callback, when one is registered
ModeChange(m, orc, sensors) ==
    IF m.obj.mode_change_func # "NULL"
    THEN Ext(m, orc, "mode_change_func", m.obj.mode_change_func, <<>>,
             ModeChangeMasks(m, sensors).s1, ModeChangeMasks(m, sensors).s2)
    ELSE Ret(m, INV_SUCCESS)

\* a variant, not the code's: the sensors that are not asked for are
\* stopped before the motion is reset
RestartStopFirst(m, orc, sensors, tick) ==
    IF m.state = INV_STATE_DMP_STARTED
    THEN Bind(Ext(m, orc, "inv_dl_start", "", <<>>, sensors, {}),
         LAMBDA m1:
         Bind(Ext(m1, orc, "inv_dl_stop", "", <<>>, AllSensorBits \ sensors, {}),
         LAMBDA m2: inv_reset_motion(m2, orc, tick)))
    ELSE Ret(m, INV_SUCCESS)

\* ml.c 1230-1246: the running device is restarted with the new mask
Restart(m, orc, sensors, tick) ==
    IF m.state = INV_STATE_DMP_STARTED
    THEN Bind(Ext(m, orc, "inv_dl_start", "", <<>>, sensors, {}),
         LAMBDA m1:
         Bind(inv_reset_motion(m1, orc, tick),
         LAMBDA m2:
         Ext(m2, orc, "inv_dl_stop", "", <<>>, AllSensorBits \ sensors, {})))
    ELSE Ret(m, INV_SUCCESS)

\* ml.c 1250-1266: the data-ready interrupt of the accelerometer
AccelIrqResume(m, orc, sensors) ==
    IF ~(INV_DMP_PROCESSOR \subseteq sensors)
       /\ (sensors \cap INV_THREE_AXIS_ACCEL) # {}
    THEN Ext(m, orc, "inv_mpu_config_accel", "MPU_SLAVE_CONFIG_IRQ_RESUME",
             ApplyFlag(m.state), {"MPU_SLAVE_IRQ_TYPE_DATA_READY"}, {})
    ELSE Ret(m, INV_SUCCESS)

\* ml.c 1156: the least state of setActiveSensors
SensorsStateOk(state) == state >= INV_STATE_DMP_OPENED

inv_set_mpu_sensors(m, cfg, orc, sensors, tick) ==
    IF ~SensorsStateOk(m.state) THEN Ret(m, INV_ERROR_SM_IMPROPER_STATE)
    ELSE IF ValidateSensors(sensors, cfg) # INV_SUCCESS
    THEN Ret(m, ValidateSensors(sensors, cfg))
    ELSE
    Bind(DmpTurnOn(m, orc, sensors),
    LAMBDA m1:
    Bind(ModeChange(m1, orc, sensors),
    LAMBDA m2:
    LET fifoRate == m2.fifo_rate
        m3 == [ExtVoid(m2, "inv_get_fifo_rate", "", <<fifoRate>>, {}, {})
                  EXCEPT !.req = sensors,
                         !.trace = Append(@, "requested_sensors")]
    IN
    Bind(Restart(m3, orc, sensors, tick),
    LAMBDA m4:
    LET w == Ext(m4, orc, "inv_set_fifo_rate", "", <<fifoRate>>, {}, {})
        m5 == IF w.r = INV_SUCCESS THEN [w.m EXCEPT !.fifo_rate = fifoRate]
              ELSE w.m
    IN  AccelIrqResume(m5, orc, sensors))))

\* ml.c 1271-1275
inv_set_mode_change(m, mode_change_func) ==
    [m EXCEPT !.obj.mode_change_func = mode_change_func]

(***************************************************************************)
(* The interrupt enables (ml.c 862-947).  interrupt_sources is the set of  *)
(* the names of its bits.                                                  *)
(***************************************************************************)
\* a variant, not the code's: the enables run once the transport is open
InterruptStateFromSerialOpened(s) == s >= INV_STATE_SERIAL_OPENED

\* ml.c 868, 915: the states the interrupt enables run in
InterruptStateOk(s) == s >= INV_STATE_DMP_OPENED

\* ml.c 871-899, 918-946: the body the two enables share, for the interrupt
\* source and the key of the enable
SetInterrupt(m, orc, on, source, key) ==
    IF ~InterruptStateOk(m.state) THEN Ret(m, INV_ERROR_SM_IMPROPER_STATE)
    ELSE
    LET write(mm) == inv_set_mpu_memory(mm, orc, key,
                                        IF on THEN <<DINAFE>> ELSE <<DINAD8>>)
    IN  IF on
        THEN Bind(Ext(m, orc, "inv_get_dl_cfg_int", "BIT_DMP_INT_EN", <<>>, {}, {}),
             LAMBDA m1 :
                 write([m1 EXCEPT !.obj.interrupt_sources = @ \cup {source}]))
        ELSE LET m1 == [m EXCEPT !.obj.interrupt_sources = @ \ {source}]
             IN  IF m1.obj.interrupt_sources = {}
                 THEN Bind(Ext(m1, orc, "inv_get_dl_cfg_int", "0", <<>>, {}, {}),
                           write)
                 ELSE write(m1)

\* ml.c 862-900
inv_set_motion_interrupt(m, orc, on) ==
    SetInterrupt(m, orc, on, "INV_INT_MOTION", "KEY_CFG_7")

\* ml.c 909-947
inv_set_fifo_interrupt(m, orc, on) ==
    SetInterrupt(m, orc, on, "INV_INT_FIFO", "KEY_CFG_6")

(***************************************************************************)
(* The bias update configuration (ml.c 949-1121).  A set of bias functions *)
(* is the set of the names of its bits.                                    *)
(***************************************************************************)
\* ml.c 86: the bias functions of a fresh library
INV_BIAS_UPDATE_FUNC_DEFAULT == {"INV_BIAS_FROM_NO_MOTION", "INV_BIAS_FROM_GRAVITY"}

\* ml.c 1031, 1069, 1113: whether the board has a compass
inv_compass_present(c) == c.compass_present

\* ml.c 953-975
inv_set_dead_zone(m, c, orc) ==
    LET reg == IF c.dead_zone THEN 8
               ELSE IF "INV_BIAS_FROM_LPF" \in m.params.bias_mode THEN 2
               ELSE 0
    IN  inv_set_mpu_memory(m, orc, "KEY_D_0_163", <<reg>>)

\* a variant, not the code's: the functions are kept whatever the board has
BiasFunctionsAnyBoard(function, bias_mode, compass) ==
    (function \ {"INV_PROGRESSIVE_NO_MOTION", "INV_BIAS_FROM_FAST_NO_MOTION"})
    \cup (bias_mode \cap {"INV_BIAS_FROM_FAST_NO_MOTION"})

\* ml.c 1017-1035: the functions that are taken over from the request
BiasFunctions(function, bias_mode, compass) ==
    LET f1 == function \ {"INV_PROGRESSIVE_NO_MOTION"}
        f2 == f1 \ {"INV_BIAS_FROM_FAST_NO_MOTION"}
        f3 == IF "INV_BIAS_FROM_FAST_NO_MOTION" \in bias_mode
              THEN f2 \cup {"INV_BIAS_FROM_FAST_NO_MOTION"} ELSE f2
    IN  IF ~compass
        THEN f3 \ {"INV_MAG_BIAS_FROM_GYRO", "INV_MAG_BIAS_FROM_MOTION"}
        ELSE f3 \ {"INV_BIAS_FROM_LPF"}

\* ml.c 1046-1056: the opcodes of the low pass filter
BiasRegs(bias_mode) ==
    IF "INV_BIAS_FROM_LPF" \in bias_mode
    THEN << DINA80 + 2, DINA2D, DINA55, DINA7D >>
    ELSE << DINA80 + 7, DINA2D, DINA35, DINA3D >>

\* ml.c 1083-1106: the temperature compensation
BiasTemperature(m, c, orc) ==
    LET m1 == [m EXCEPT !.obj.factory_temp_comp = IF c.offset_tc THEN 1 ELSE 0]
    IN  IF ~c.offset_tc
        THEN Ext(m1, orc, "inv_set_gyro_temp_slope",
                 IF "INV_BIAS_FROM_TEMPERATURE" \in m1.params.bias_mode
                 THEN "temp_slope" ELSE "zero", <<>>, {}, {})
        ELSE Ret([m1 EXCEPT !.params.bias_mode =
                                @ \ {"INV_LEARN_BIAS_FROM_TEMPERATURE"}],
                 INV_SUCCESS)

\* ml.c 1112-1118: the accelerometer and gyroscope data the trackers need
BiasSendData(m, c, orc) ==
    IF \/ "INV_BIAS_FROM_GRAVITY" \in m.params.bias_mode /\ inv_compass_present(c)
       \/ "INV_MAG_BIAS_FROM_GYRO" \in m.params.bias_mode
       \/ "INV_MAG_BIAS_FROM_MOTION" \in m.params.bias_mode
    THEN Ext(Ext(m, orc, "inv_send_accel", "INV_ALL", <<>>, {}, {}).m,
             orc, "inv_send_gyro", "INV_ALL", <<>>, {}, {}).m
    ELSE m

\* ml.c 1006-1121
inv_set_bias_update(m, c, orc, function) ==
    IF m.state # INV_STATE_DMP_OPENED THEN Ret(m, INV_ERROR_SM_IMPROPER_STATE)
    ELSE
    LET f  == BiasFunctions(function, m.params.bias_mode, inv_compass_present(c))
        m1 == [m EXCEPT !.params.bias_mode = f \ {"INV_BIAS_FROM_NO_MOTION"}]
        m2 == Ext(m1, orc,
                  IF "INV_BIAS_FROM_NO_MOTION" \in f
                  THEN "inv_enable_bias_no_motion"
                  ELSE "inv_disable_bias_no_motion", "", <<>>, {}, {}).m
    IN
    Bind(inv_set_mpu_memory(m2, orc, "KEY_FCFG_5", BiasRegs(m2.params.bias_mode)),
    LAMBDA m3:
    Bind(inv_set_dead_zone(m3, c, orc),
    LAMBDA m4:
    Bind(Ext(m4, orc, "inv_set_gyro_data_source",
             IF "INV_BIAS_FROM_GRAVITY" \in m4.params.bias_mode
                /\ ~inv_compass_present(c)
             THEN "INV_GYRO_FROM_QUATERNION" ELSE "INV_GYRO_FROM_RAW",
             <<>>, {}, {}),
    LAMBDA m5:
    Bind(BiasTemperature(m5, c, orc),
    LAMBDA m6: Ret(BiasSendData(m6, c, orc), INV_SUCCESS)))))

(***************************************************************************)
(* Serial start and stop (ml.c 161-207) and the state machine they drive.  *)
(***************************************************************************)
\* the transition function of the state machine: a legal move is run through
\* the state callbacks and taken when they succeed
LegalTransition(from, to) ==
    \/ to = INV_STATE_SERIAL_CLOSED
    \/ to = INV_STATE_SERIAL_OPENED
    \/ to = INV_STATE_DMP_OPENED
       /\ from \in {INV_STATE_SERIAL_OPENED, INV_STATE_DMP_STARTED}
    \/ to = INV_STATE_DMP_STARTED /\ from = INV_STATE_DMP_OPENED

StateName == [st \in States |->
                 <<"INV_STATE_SERIAL_CLOSED", "INV_STATE_SERIAL_OPENED",
                   "INV_STATE_DMP_OPENED", "INV_STATE_DMP_STARTED">>[st + 1]]

inv_state_transition(m, orc, newState) ==
    IF ~LegalTransition(m.state, newState)
    THEN Ret(m, INV_ERROR_SM_IMPROPER_STATE)
    ELSE LET x == Ext(m, orc, "inv_state_transition", StateName[newState],
                      <<>>, {}, {})
         IN  IF x.r = INV_SUCCESS
             THEN Ret([x.m EXCEPT !.state = newState], x.r)
             ELSE x

inv_serial_start(m, orc) ==
    IF m.state >= INV_STATE_SERIAL_OPENED THEN Ret(m, INV_SUCCESS)
    ELSE
    Bind(inv_state_transition(m, orc, INV_STATE_SERIAL_OPENED),
    LAMBDA m1:
    LET x == Ext(m1, orc, "inv_serial_open", "", <<>>, {}, {})
    IN  IF x.r # INV_SUCCESS
        THEN Ret(inv_state_transition(x.m, orc, INV_STATE_SERIAL_CLOSED).m, x.r)
        ELSE Ret([x.m EXCEPT !.handle = "open"], x.r))

inv_serial_stop(m, orc) ==
    IF m.state = INV_STATE_SERIAL_CLOSED THEN Ret(m, INV_SUCCESS)
    ELSE
    LET m1 == inv_state_transition(m, orc, INV_STATE_SERIAL_CLOSED).m
        x  == Ext(m1, orc, "inv_serial_close", "", <<>>, {}, {})
    IN  IF x.r = INV_SUCCESS
        THEN Ret([x.m EXCEPT !.handle = "closed"], x.r)
        ELSE x


(***************************************************************************)
(* The device configurations (mldl_cfg and its platform data) of the model *)
(* and the inputs of the operations.                                       *)
(***************************************************************************)
Identity == <<1, 0, 0, 0, 1, 0, 0, 0, 1>>
SwapNeg  == <<0, -1, 0, 1, 0, 0, 0, 0, -1>>
ZeroRow  == <<1, 0, 0, 0, 0, 0, 0, 0, 1>>
Orientations == {Identity, SwapNeg, ZeroRow}

FullScales == {"MPU_FS_250DPS", "MPU_FS_500DPS", "MPU_FS_1000DPS",
               "MPU_FS_2000DPS", "MPU_FS_UNKNOWN"}

\* gyro, accelerometer and compass, every slave described, every key supported
BoardFull ==
    [gyro_sens_trim |-> 131, orientation |-> Identity,
     accel_present |-> TRUE, accel_id |-> 1,
     accel_range |-> [mantissa |-> 2, fraction |-> 0],
     accel_orientation |-> SwapNeg, accel_get_slave_descr |-> TRUE,
     compass_present |-> TRUE,
     compass_range |-> [mantissa |-> 9830, fraction |-> 4000],
     compass_orientation |-> Identity, compass_get_slave_descr |-> TRUE,
     pressure_get_slave_descr |-> TRUE,
     key_D_1_152 |-> TRUE, key_CPASS_MTX |-> TRUE,
     dead_zone |-> FALSE, offset_tc |-> FALSE]

\* no compass, no pressure sensor, a degenerate accelerometer mounting matrix
BoardNoCompass ==
    [BoardFull EXCEPT !.gyro_sens_trim = 0, !.orientation = SwapNeg,
                      !.accel_orientation = ZeroRow,
                      !.compass_present = FALSE,
                      !.compass_get_slave_descr = FALSE,
                      !.pressure_get_slave_descr = FALSE,
                      !.key_D_1_152 = FALSE]

\* an accelerometer without id and without slave descriptor, a compass whose
\* matrix keys the firmware does not have
BoardNoAccelDescr ==
    [BoardFull EXCEPT !.accel_id = 0, !.accel_get_slave_descr = FALSE,
                      !.compass_orientation = SwapNeg,
                      !.key_CPASS_MTX = FALSE]

\* the gyroscope alone
BoardGyroOnly ==
    [BoardFull EXCEPT !.accel_present = FALSE, !.accel_get_slave_descr = FALSE,
                      !.compass_present = FALSE,
                      !.compass_get_slave_descr = FALSE,
                      !.key_D_1_152 = FALSE]

Boards == {BoardFull, BoardNoCompass, BoardNoAccelDescr, BoardGyroOnly}

WithFullScale(b, fs) ==
    [full_scale |-> fs, gyro_sens_trim |-> b.gyro_sens_trim,
     orientation |-> b.orientation,
     accel_present |-> b.accel_present, accel_id |-> b.accel_id,
     accel_range |-> b.accel_range,
     accel_orientation |-> b.accel_orientation,
     accel_get_slave_descr |-> b.accel_get_slave_descr,
     compass_present |-> b.compass_present,
     compass_range |-> b.compass_range,
     compass_orientation |-> b.compass_orientation,
     compass_get_slave_descr |-> b.compass_get_slave_descr,
     pressure_get_slave_descr |-> b.pressure_get_slave_descr,
     key_D_1_152 |-> b.key_D_1_152, key_CPASS_MTX |-> b.key_CPASS_MTX,
     dead_zone |-> b.dead_zone, offset_tc |-> b.offset_tc]

\* the configurations of the calibration runs: one board with every
\* full-scale setting, the other boards with one setting
CalConfigs ==
    {WithFullScale(BoardFull, fs) : fs \in FullScales}
    \cup {WithFullScale(b, "MPU_FS_2000DPS") : b \in Boards}

\* the configurations of the sensor and pump runs, which do not depend on the
\* full-scale setting
BoardConfigs == {WithFullScale(b, "MPU_FS_2000DPS") : b \in Boards}

Configs == CalConfigs \cup BoardConfigs

\* the masks a caller passes to setActiveSensors: the gyroscope with
\* nothing, a part or the whole of each other group, and the gyroscope and
\* the DMP with nothing, a part or the whole of the accelerometer
GroupChoices(group, part) == {{}, part, group}
SensorMasks ==
    {INV_THREE_AXIS_GYRO \cup a \cup c \cup p :
        a \in GroupChoices(INV_THREE_AXIS_ACCEL, {"INV_X_ACCEL", "INV_Y_ACCEL"}),
        c \in GroupChoices(INV_THREE_AXIS_COMPASS, {"INV_X_COMPASS"}),
        p \in GroupChoices(INV_THREE_AXIS_PRESSURE, {"INV_Z_PRESSURE"})}
    \cup
    {INV_THREE_AXIS_GYRO \cup INV_DMP_PROCESSOR \cup a :
        a \in GroupChoices(INV_THREE_AXIS_ACCEL, {"INV_X_ACCEL", "INV_Y_ACCEL"})}

\* the masks of the runs of the whole layer
LayerMasks == {INV_THREE_AXIS_GYRO \cup INV_DMP_PROCESSOR,
               INV_THREE_AXIS_GYRO \cup INV_THREE_AXIS_ACCEL,
               INV_THREE_AXIS_GYRO \cup {"INV_X_COMPASS"}}

\* the masks of the pump runs: the DMP on or off
PumpMasks == {INV_THREE_AXIS_GYRO, INV_THREE_AXIS_GYRO \cup INV_DMP_PROCESSOR}

\* the matrices of the encoder runs: every row over {-1, 0, 1} in every
\* row position, the rows of the identity matrix in the other positions
Rows == {<<a, b, c>> : a \in {-1, 0, 1}, b \in {-1, 0, 1}, c \in {-1, 0, 1}}
WithRow(row, i) ==
    [k \in 1..9 |-> IF (k - 1) \div 3 = i THEN row[((k - 1) % 3) + 1]
                    ELSE Identity[k]]
EncodeMatrices == {WithRow(row, i) : row \in Rows, i \in 0..2}
EncodeConfigs ==
    {[WithFullScale(BoardFull, "MPU_FS_2000DPS")
         EXCEPT !.orientation = mtx, !.accel_orientation = mtx] :
        mtx \in EncodeMatrices}

\* the configurations of the bias runs: with and without compass, with and
\* without the dead zone, with and without factory temperature compensation
BiasConfigs ==
    {[WithFullScale(b, "MPU_FS_2000DPS") EXCEPT !.dead_zone = t, !.offset_tc = t] :
        b \in {BoardFull, BoardNoCompass}, t \in BOOLEAN}

\* the bias functions a caller requests: every choice of the low pass
\* filter, the magnetic trackers and gravity, alone, with no-motion, with
\* the temperature functions, or with the trackers of their own switches
BiasRequests ==
    {core \cup extra :
        core \in SUBSET {"INV_BIAS_FROM_LPF", "INV_MAG_BIAS_FROM_MOTION",
                         "INV_MAG_BIAS_FROM_GYRO", "INV_BIAS_FROM_GRAVITY"},
        extra \in {{}, {"INV_BIAS_FROM_NO_MOTION"},
                   {"INV_BIAS_FROM_TEMPERATURE", "INV_LEARN_BIAS_FROM_TEMPERATURE"},
                   {"INV_PROGRESSIVE_NO_MOTION", "INV_BIAS_FROM_FAST_NO_MOTION"}}}

\* the configurations of the recovery runs: an accelerometer mounted with
\* a proper matrix and one mounted with a matrix that has a row of zeros
RecoveryConfigs ==
    {[WithFullScale(BoardFull, "MPU_FS_2000DPS") EXCEPT !.accel_orientation = o] :
        o \in {SwapNeg, ZeroRow}}

\* the values of the tick counter in the recovery runs
RecoveryTicks == {100, 200}

\* the bytes an out-of-bounds read of the opcode table may yield
UBBytes == {0, 255}
\* the values of the tick counter
Ticks == {100}
\* the callbacks a client registers
Callbacks == {"cb_a", "cb_b"}
IntSources == {"INTSRC_AUX1", "INTSRC_MPU"}

\* the fault scenarios: a healthy device, or one external call that fails
\* whenever it is made
OneFault(sigs) == {NoFault} \cup {{sg} : sg \in sigs}
MemoryFaults(keys) == {Sig("inv_set_mpu_memory", k) : k \in keys}
CalFaults == OneFault(MemoryFaults(CalibrationKeys))
SensorFaults ==
    OneFault(MemoryFaults(MotionKeys)
             \cup {Sig("inv_mpu_config_accel", "MPU_SLAVE_CONFIG_ODR_RESUME"),
                   Sig("inv_mpu_config_accel", "MPU_SLAVE_CONFIG_IRQ_RESUME"),
                   Sig("mode_change_func", "mode_cb"),
                   Sig("inv_dl_start", ""), Sig("inv_dl_stop", ""),
                   Sig("inv_set_fifo_rate", "")})
BiasFaults ==
    OneFault(MemoryFaults(BiasKeys)
             \cup {Sig("inv_set_gyro_data_source", "INV_GYRO_FROM_RAW"),
                   Sig("inv_set_gyro_data_source", "INV_GYRO_FROM_QUATERNION"),
                   Sig("inv_set_gyro_temp_slope", "zero")})
InterruptFaults ==
    OneFault(MemoryFaults({"KEY_CFG_7", "KEY_CFG_6"})
             \cup {Sig("inv_get_dl_cfg_int", "BIT_DMP_INT_EN"),
                   Sig("inv_get_dl_cfg_int", "0")})
RecoveryFaults ==
    OneFault(MemoryFaults(GyroKeys \cup AccelKeys \cup MotionKeys))
\* the transport and the state machine: any of their calls may fail
SerialFaults ==
    SUBSET {Sig("inv_serial_open", ""), Sig("inv_serial_close", ""),
            Sig("inv_state_transition", StateName[INV_STATE_SERIAL_OPENED]),
            Sig("inv_state_transition", StateName[INV_STATE_SERIAL_CLOSED])}
PumpFaults ==
    OneFault({Sig("inv_read_and_process_fifo", ""), Sig("inv_get_fifo_status", "")})

(***************************************************************************)
(* The state.                                                              *)
(***************************************************************************)
VARIABLES
    state,                \* the state of the state machine (mlstates)
    inv_obj,              \* the motion processing context
    inv_params_obj,       \* the parameters of the library: the bias functions
    requested_sensors,    \* mldl_cfg->requested_sensors
    cfg,                  \* the rest of mldl_cfg, fixed at start
    mem,                  \* the device memory, by key
    mlxCallbackInterrupt, \* the registry of interrupt callbacks
    g_mlsl_handle,        \* the serial handle: "open" or "closed"
    int_trigger,          \* the interrupt triggers, by source
    fifo_rate,            \* the FIFO rate of the device
    fault,                \* the external calls that fail in this run
    op,                   \* the call in progress: the operation, its arguments,
                          \* its result, and the state pre it started from
    ext_calls,            \* the external calls this call made, in order
    trace                 \* the internal steps of this call, in order

vars == << state, inv_obj, inv_params_obj, requested_sensors, cfg, mem, mlxCallbackInterrupt,
           g_mlsl_handle, int_trigger, fifo_rate, fault, op, ext_calls, trace >>

\* ml.c 664-731: the context after inv_init_ml
InitObj ==
    [gyro_sens |-> 0, gyro_sf |-> 0, gyro_cal |-> Zero9, gyro_orient |-> Zero9,
     accel_sens |-> 0, accel_cal |-> Zero9,
     compass_sens |-> 322122560,
     compass_cal |-> [kk \in 1..9 |-> IF kk \in {1, 5, 9} THEN 322122560 ELSE 0],
     motion_state |-> INV_MOTION, flag_motion_state_change |-> 0,
     no_motion_accel_time |-> 0, motion_duration |-> 1536,
     interrupt_sources |-> {}, mode_change_func |-> "NULL",
     factory_temp_comp |-> 0]

\* ml.c 85-92: the parameters of a fresh library
InitParams == [bias_mode |-> INV_BIAS_UPDATE_FUNC_DEFAULT]

\* ml.c 671: the registry after inv_init_ml
InitCb == [numInterruptProcesses |-> 0,
           processInterruptCb |-> [kk \in 1..MAX_INTERRUPT_PROCESSES |-> "NULL"]]

\* no call is in progress
Idle == [name |-> "idle", res |-> INV_SUCCESS, mask |-> {}, orient |-> <<>>,
         pre |-> <<>>]

InitWith(configs, faults) ==
    /\ state = INV_STATE_SERIAL_CLOSED
    /\ inv_obj = InitObj
    /\ inv_params_obj = InitParams
    /\ requested_sensors = {}
    /\ cfg \in configs
    /\ mem = [k \in Keys |-> <<>>]
    /\ mlxCallbackInterrupt = InitCb
    /\ g_mlsl_handle = "closed"
    /\ int_trigger = [src \in IntSources |-> FALSE]
    /\ fifo_rate = 5
    /\ fault \in faults
    /\ op = Idle
    /\ ext_calls = <<>>
    /\ trace = <<>>

\* the machine an operation starts from: the state, and the empty logs of
\* its external calls and of its internal steps
Cur == [state |-> state, obj |-> inv_obj, params |-> inv_params_obj, req |-> requested_sensors, mem |-> mem,
        cb |-> mlxCallbackInterrupt, handle |-> g_mlsl_handle,
        trig |-> int_trigger, fifo_rate |-> fifo_rate,
        calls |-> <<>>, trace |-> <<>>]

\* the caller, serialising the entry points, calls the operation name with
\* mask and orient; the operation runs to its end, result
Commit(name, mask, orient, result) ==
    \E x \in {result} :
    /\ op.name = "idle"
    /\ state' = x.m.state
    /\ inv_obj' = x.m.obj
    /\ inv_params_obj' = x.m.params
    /\ requested_sensors' = x.m.req
    /\ mem' = x.m.mem
    /\ mlxCallbackInterrupt' = x.m.cb
    /\ g_mlsl_handle' = x.m.handle
    /\ int_trigger' = x.m.trig
    /\ fifo_rate' = x.m.fifo_rate
    /\ ext_calls' = x.m.calls
    /\ trace' = x.m.trace
    /\ op' = [name |-> name, res |-> x.r, mask |-> mask, orient |-> orient,
              pre |-> Cur]
    /\ UNCHANGED << cfg, fault >>

\* the caller takes the result of the call; a process that died takes none
Return ==
    /\ op.name # "idle"
    /\ op.res # SIGSEGV
    /\ op' = Idle
    /\ ext_calls' = <<>>
    /\ trace' = <<>>
    /\ UNCHANGED << state, inv_obj, inv_params_obj, requested_sensors, cfg, mem,
                    mlxCallbackInterrupt, g_mlsl_handle, int_trigger,
                    fifo_rate, fault >>

(***************************************************************************)
(* The operations of ml.c.                                                 *)
(***************************************************************************)
SerialStart ==
    Commit("inv_serial_start", {}, <<>>, inv_serial_start(Cur, fault))

SerialStop ==
    Commit("inv_serial_stop", {}, <<>>, inv_serial_stop(Cur, fault))

\* the bytes the out-of-bounds read may yield for this matrix
UbChoices(orientation) ==
    IF \E i \in 0..2 : inv_row_2_scale(SubSeq(orientation, 3 * i + 1, 3 * i + 3)) % 4 = 3
    THEN UBBytes ELSE {0}

\* the matrices a caller passes to the accelerometer calibration: the one
\* of the configuration and another one
CallerOrientations(own) == {own, SwapNeg}

ApplyCalibration ==
    \E ub \in UbChoices(cfg.accel_orientation) :
        Commit("inv_apply_calibration", {}, <<>>,
               inv_apply_calibration(Cur, cfg, fault, ub))

SetAccelCalibration ==
    \E orientation \in CallerOrientations(cfg.accel_orientation) :
    \E ub \in UbChoices(orientation) :
        Commit("inv_set_accel_calibration", {}, orientation,
               inv_set_accel_calibration(Cur, cfg, fault, FromInt(2), orientation, ub))

ResetMotion ==
    \E tick \in Ticks :
        Commit("inv_reset_motion", {}, <<>>, inv_reset_motion(Cur, fault, tick))

\* resetMotion called as time goes by
ResetMotionRecovery ==
    \E tick \in RecoveryTicks :
        Commit("inv_reset_motion", {}, <<>>, inv_reset_motion(Cur, fault, tick))

UpdateData ==
    Commit("inv_update_data", {}, <<>>, inv_update_data(Cur, fault))

SetMpuSensorsOf(masks) ==
    \E sensors \in masks :
    \E tick \in Ticks :
        Commit("inv_set_mpu_sensors", sensors, <<>>,
               inv_set_mpu_sensors(Cur, cfg, fault, sensors, tick))

SetMpuSensors == SetMpuSensorsOf(SensorMasks)

\* the client of the runs of the whole layer
SetMpuSensorsLayer == SetMpuSensorsOf(LayerMasks)

\* the client of the pump runs switches the DMP on and off only
SetMpuSensorsDmp == SetMpuSensorsOf(PumpMasks)

SetModeChange ==
    \E f \in {"NULL", "mode_cb"} :
        /\ f # inv_obj.mode_change_func
        /\ Commit("inv_set_mode_change", {}, <<>>,
                  Ret(inv_set_mode_change(Cur, f), INV_SUCCESS))

(***************************************************************************)
(* The static calibration operations, called on their own with the         *)
(* arguments apply-all passes (ml.c 572-585, 598-599, 604, 617).           *)
(***************************************************************************)
SetGyroCalibration ==
    /\ GyroScaleOf(cfg.full_scale) # 0
    /\ Commit("inv_set_gyro_calibration", {}, cfg.orientation,
               inv_set_gyro_calibration(Cur, cfg, fault,
                   FromInt(GyroScaleOf(cfg.full_scale)), cfg.orientation))

SetCompassCalibration ==
    /\ cfg.compass_present
    /\ Commit("inv_set_compass_calibration", {}, cfg.compass_orientation,
               inv_set_compass_calibration(Cur, cfg, fault,
                   RANGE_FIXEDPOINT_TO_FLOAT(cfg.compass_range),
                   cfg.compass_orientation))

(***************************************************************************)
(* The rest of the library and the device, as far as ml.c depends on it.   *)
(***************************************************************************)
\* DMP open, start, stop and close: moves of the state machine
DmpTransition ==
    \E to \in {INV_STATE_SERIAL_OPENED, INV_STATE_DMP_OPENED, INV_STATE_DMP_STARTED} :
        /\ state >= INV_STATE_SERIAL_OPENED
        /\ to # state
        /\ LegalTransition(state, to)
        /\ to = INV_STATE_SERIAL_OPENED => state = INV_STATE_DMP_OPENED
        /\ Commit("inv_state_transition", {}, <<>>,
                  inv_state_transition(Cur, fault, to))

\* registration of an interrupt callback: appended while there is room
inv_register_dmp_interupt_cb(m, func) ==
    IF m.cb.numInterruptProcesses <= MAX_INTERRUPT_PROCESSES - 1
    THEN Ret([m EXCEPT !.cb.processInterruptCb[m.cb.numInterruptProcesses + 1] = func,
                       !.cb.numInterruptProcesses = @ + 1],
             INV_SUCCESS)
    ELSE Ret(m, "INV_ERROR_MEMORY_EXAUSTED")

RegisterDmpInterruptCb ==
    \E func \in Callbacks :
        Commit("inv_register_dmp_interupt_cb", {}, <<>>,
               inv_register_dmp_interupt_cb(Cur, func))

\* ml.c 1006-1121
SetBiasUpdate ==
    \E function \in BiasRequests :
        Commit("inv_set_bias_update", function, <<>>,
               inv_set_bias_update(Cur, cfg, fault, function))

\* ml.c 1022-1027: the fast no-motion tracker is switched on and off by
\* its own entry points, which set and clear its bit of bias_mode
FastNoMotion ==
    \E on \in BOOLEAN :
        /\ op.name = "idle"
        /\ on # ("INV_BIAS_FROM_FAST_NO_MOTION" \in inv_params_obj.bias_mode)
        /\ inv_params_obj' =
              [inv_params_obj EXCEPT !.bias_mode =
                  IF on THEN @ \cup {"INV_BIAS_FROM_FAST_NO_MOTION"}
                  ELSE @ \ {"INV_BIAS_FROM_FAST_NO_MOTION"}]
        /\ UNCHANGED << state, inv_obj, requested_sensors, cfg, mem,
                        mlxCallbackInterrupt, g_mlsl_handle, int_trigger,
                        fifo_rate, fault, op, ext_calls, trace >>

\* ml.c 862-900
SetMotionInterrupt ==
    \E on \in BOOLEAN :
        Commit("inv_set_motion_interrupt", IF on THEN {"on"} ELSE {}, <<>>,
               inv_set_motion_interrupt(Cur, fault, on))

\* ml.c 909-947
SetFifoInterrupt ==
    \E on \in BOOLEAN :
        Commit("inv_set_fifo_interrupt", IF on THEN {"on"} ELSE {}, <<>>,
               inv_set_fifo_interrupt(Cur, fault, on))

\* the device raises an interrupt
Interrupt ==
    \E src \in IntSources :
        /\ state = INV_STATE_DMP_STARTED
        /\ ~int_trigger[src]
        /\ op.name = "idle"
        /\ int_trigger' = [int_trigger EXCEPT ![src] = TRUE]
        /\ UNCHANGED << state, inv_obj, inv_params_obj, requested_sensors, cfg, mem,
                        mlxCallbackInterrupt, g_mlsl_handle, fifo_rate, fault,
                        op, ext_calls, trace >>

\* the supervisor detects that the device came to rest
NoMotionDetected ==
    /\ state = INV_STATE_DMP_STARTED
    /\ inv_obj.motion_state # INV_NO_MOTION
    /\ op.name = "idle"
    /\ inv_obj' = inv_set_motion_state(Cur, INV_NO_MOTION).obj
    /\ UNCHANGED << state, inv_params_obj, requested_sensors, cfg, mem, mlxCallbackInterrupt,
                    g_mlsl_handle, int_trigger, fifo_rate, fault, op,
                    ext_calls, trace >>

(***************************************************************************)
(* The specifications: the public operations of the whole layer on one     *)
(* board, and one specification per component.                             *)
(***************************************************************************)
Init == InitWith({WithFullScale(BoardFull, "MPU_FS_2000DPS")}, {NoFault})

Next ==
    \/ SerialStart
    \/ SerialStop
    \/ DmpTransition
    \/ ApplyCalibration
    \/ SetAccelCalibration
    \/ SetMpuSensorsLayer
    \/ ResetMotion
    \/ SetMotionInterrupt
    \/ SetFifoInterrupt
    \/ Interrupt
    \/ UpdateData
    \/ Return

Spec == Init /\ [][Next]_vars

\* the calibration encoder, its static operations included: every
\* configuration on a healthy device, the full board with every fault
InitCal ==
    \/ InitWith(CalConfigs, {NoFault})
    \/ InitWith({WithFullScale(BoardFull, "MPU_FS_2000DPS")}, CalFaults)

NextCal ==
    \/ SerialStart
    \/ DmpTransition
    \/ ApplyCalibration
    \/ SetAccelCalibration
    \/ SetGyroCalibration
    \/ SetCompassCalibration
    \/ Return

SpecCal == InitCal /\ [][NextCal]_vars

\* the orientation encoders of the gyroscope and of the accelerometer
InitEncode == InitWith(EncodeConfigs, {NoFault})

NextEncode ==
    \/ SerialStart
    \/ DmpTransition
    \/ SetGyroCalibration
    \/ SetAccelCalibration
    \/ Return

SpecEncode == InitEncode /\ [][NextEncode]_vars

\* the bias update configuration
InitBias == InitWith(BiasConfigs, BiasFaults)

NextBias ==
    \/ SerialStart
    \/ DmpTransition
    \/ SetBiasUpdate
    \/ FastNoMotion
    \/ Return

SpecBias == InitBias /\ [][NextBias]_vars

\* the interrupt enables and the sensor enable controller on one board
InitInterrupts ==
    InitWith({WithFullScale(BoardFull, "MPU_FS_2000DPS")}, InterruptFaults)

NextInterrupts ==
    \/ SerialStart
    \/ SerialStop
    \/ DmpTransition
    \/ SetMotionInterrupt
    \/ SetFifoInterrupt
    \/ SetMpuSensorsLayer
    \/ Return

SpecInterrupts == InitInterrupts /\ [][NextInterrupts]_vars

\* the operations that are called again after a failed write
InitRecovery == InitWith(RecoveryConfigs, RecoveryFaults)

NextRecovery ==
    \/ SerialStart
    \/ DmpTransition
    \/ SetGyroCalibration
    \/ SetAccelCalibration
    \/ ResetMotionRecovery
    \/ NoMotionDetected
    \/ Return

SpecRecovery == InitRecovery /\ [][NextRecovery]_vars

\* the transport: serial start and stop in every state
InitSerial ==
    InitWith({WithFullScale(BoardFull, "MPU_FS_2000DPS")}, SerialFaults)

NextSerial ==
    \/ SerialStart
    \/ SerialStop
    \/ DmpTransition
    \/ Return

SpecSerial == InitSerial /\ [][NextSerial]_vars

\* the sensor enable controller and the motion resetter: every board on a
\* healthy device, the full board with every fault
InitSensors ==
    \/ InitWith(BoardConfigs, {NoFault})
    \/ InitWith({WithFullScale(BoardFull, "MPU_FS_2000DPS")}, SensorFaults)

NextSensors ==
    \/ SerialStart
    \/ DmpTransition
    \/ SetMpuSensors
    \/ SetModeChange
    \/ ResetMotion
    \/ NoMotionDetected
    \/ Return

SpecSensors == InitSensors /\ [][NextSensors]_vars

\* the data pump
InitPump == InitWith(BoardConfigs, PumpFaults)

NextPump ==
    \/ SerialStart
    \/ DmpTransition
    \/ SetMpuSensorsDmp
    \/ RegisterDmpInterruptCb
    \/ Interrupt
    \/ UpdateData
    \/ Return

SpecPump == InitPump /\ [][NextPump]_vars

(***************************************************************************)
(* The properties.  A call is looked at in the state right after it: op    *)
(* holds its name, arguments, result and the state pre it started from,    *)
(* ext_calls the external calls it made and trace its internal steps.      *)
(***************************************************************************)

\* C1, as the specification states it: for every valid full-scale enum and
\* every state other than DMP_OPENED, apply-all returns ImproperState and
\* writes no device memory.
C1_AsStated ==
    (/\ op.name = "inv_apply_calibration"
     /\ GyroScaleOf(cfg.full_scale) # 0
     /\ op.pre.state # INV_STATE_DMP_OPENED)
    => /\ op.res = INV_ERROR_SM_IMPROPER_STATE
       /\ \A i \in 1..Len(ext_calls) : ext_calls[i].fn # "inv_set_mpu_memory"

\* C1, as the code has it: for every valid full-scale enum and every state
\* other than DMP_OPENED, apply-all returns INV_SUCCESS, makes no external
\* call and so writes no device memory, and changes nothing but the
\* sensitivities accel_sens and compass_sens of the context.
C1_SkipsOutsideDmpOpened ==
    (/\ op.name = "inv_apply_calibration"
     /\ GyroScaleOf(cfg.full_scale) # 0
     /\ op.pre.state # INV_STATE_DMP_OPENED)
    => /\ op.res = INV_SUCCESS
       /\ ext_calls = <<>>
       /\ mem = op.pre.mem
       /\ state = op.pre.state
       /\ inv_obj = [op.pre.obj EXCEPT !.accel_sens = inv_obj.accel_sens,
                                       !.compass_sens = inv_obj.compass_sens]

\* apply-all was called in DMP_STARTED, with a context calibrated before
C1_Witness ==
    /\ op.name = "inv_apply_calibration"
    /\ GyroScaleOf(cfg.full_scale) # 0
    /\ op.pre.state = INV_STATE_DMP_STARTED
    /\ op.pre.obj.gyro_sens # 0
    /\ op.res = INV_SUCCESS

\* C2: update() below DMP_STARTED returns ImproperState and makes no
\* external call: no FIFO read, no read or clear of an interrupt trigger, no
\* callback; the triggers stay as they were.
C2_UpdateBelowStarted ==
    (op.name = "inv_update_data" /\ op.pre.state < INV_STATE_DMP_STARTED)
    => /\ op.res = INV_ERROR_SM_IMPROPER_STATE
       /\ ext_calls = <<>>
       /\ int_trigger = op.pre.trig

\* update() was refused in DMP_OPENED while the MPU interrupt was pending
\* and a callback was registered
C2_Witness ==
    /\ op.name = "inv_update_data"
    /\ op.pre.state = INV_STATE_DMP_OPENED
    /\ op.pre.trig["INTSRC_MPU"]
    /\ op.pre.cb.numInterruptProcesses > 0
    /\ op.res = INV_ERROR_SM_IMPROPER_STATE

\* C3: from DMP_OPENED on, setActiveSensors with some but not all of the
\* accelerometer axes returns FeatureNotImplemented, leaves
\* requested_sensors as it was and makes no external call.
C3_PartialAccel ==
    (/\ op.name = "inv_set_mpu_sensors"
     /\ op.pre.state >= INV_STATE_DMP_OPENED
     /\ (op.mask \cap INV_THREE_AXIS_ACCEL) \notin {{}, INV_THREE_AXIS_ACCEL})
    => /\ op.res = INV_ERROR_FEATURE_NOT_IMPLEMENTED
       /\ requested_sensors = op.pre.req
       /\ ext_calls = <<>>

\* two of the three accelerometer axes were asked for on a running device
\* with another mask in force, the mode-change callback registered
C3_Witness ==
    /\ op.name = "inv_set_mpu_sensors"
    /\ op.pre.state = INV_STATE_DMP_STARTED
    /\ Cardinality(op.mask \cap INV_THREE_AXIS_ACCEL) = 2
    /\ op.pre.req # {}
    /\ op.pre.req # op.mask
    /\ op.pre.obj.mode_change_func # "NULL"
    /\ op.res = INV_ERROR_FEATURE_NOT_IMPLEMENTED

\* C4: from DMP_OPENED on, setActiveSensors with all three accelerometer
\* axes and no accelerometer slave descriptor returns
\* SerialDeviceNotRecognized and leaves requested_sensors as it was.
C4_AccelWithoutDescriptor ==
    (/\ op.name = "inv_set_mpu_sensors"
     /\ op.pre.state >= INV_STATE_DMP_OPENED
     /\ INV_THREE_AXIS_ACCEL \subseteq op.mask
     /\ ~cfg.accel_get_slave_descr)
    => /\ op.res = INV_ERROR_SERIAL_DEVICE_NOT_RECOGNIZED
       /\ requested_sensors = op.pre.req

\* the whole accelerometer group was asked for on a board without its slave
\* descriptor, with another mask in force
C4_Witness ==
    /\ op.name = "inv_set_mpu_sensors"
    /\ op.pre.state >= INV_STATE_DMP_OPENED
    /\ INV_THREE_AXIS_ACCEL \subseteq op.mask
    /\ ~cfg.accel_get_slave_descr
    /\ op.pre.req # {}
    /\ op.res = INV_ERROR_SERIAL_DEVICE_NOT_RECOGNIZED

\* C5, as the specification states it: from DMP_OPENED on, every mask that
\* covers a part of at least one group returns FeatureNotImplemented, also
\* when another group, asked for in full, has no slave descriptor.
C5_AsStated ==
    (/\ op.name = "inv_set_mpu_sensors"
     /\ op.pre.state >= INV_STATE_DMP_OPENED
     /\ \E g \in {INV_THREE_AXIS_ACCEL, INV_THREE_AXIS_COMPASS,
                  INV_THREE_AXIS_PRESSURE} : (op.mask \cap g) \notin {{}, g})
    => op.res = INV_ERROR_FEATURE_NOT_IMPLEMENTED

\* C5, as the code has it: the groups are validated one after the other,
\* accelerometer, compass, pressure, and for each group the coverage comes
\* before the slave descriptor.  So the result is that of the first group
\* in this order that is asked for in part (FeatureNotImplemented) or asked
\* for without slave descriptor (SerialDeviceNotRecognized); a mask that
\* covers a part of a group returns FeatureNotImplemented unless a group
\* before it is asked for in full without slave descriptor.
C5_GroupByGroup ==
    LET groups == << INV_THREE_AXIS_ACCEL, INV_THREE_AXIS_COMPASS,
                     INV_THREE_AXIS_PRESSURE >>
        descr  == << cfg.accel_get_slave_descr, cfg.compass_get_slave_descr,
                     cfg.pressure_get_slave_descr >>
        part(i) == (op.mask \cap groups[i]) \notin {{}, groups[i]}
        lost(i) == groups[i] \subseteq op.mask /\ ~descr[i]
        bad     == {i \in 1..3 : part(i) \/ lost(i)}
        first   == CHOOSE i \in bad : \A j \in bad : i <= j
    IN  (/\ op.name = "inv_set_mpu_sensors"
         /\ op.pre.state >= INV_STATE_DMP_OPENED
         /\ bad # {})
        => /\ op.res = IF part(first) THEN INV_ERROR_FEATURE_NOT_IMPLEMENTED
                       ELSE INV_ERROR_SERIAL_DEVICE_NOT_RECOGNIZED
           /\ requested_sensors = op.pre.req
           /\ ext_calls = <<>>

\* the whole accelerometer group without slave descriptor came together
\* with a part of the compass group
C5_Witness ==
    /\ op.name = "inv_set_mpu_sensors"
    /\ op.pre.state >= INV_STATE_DMP_OPENED
    /\ INV_THREE_AXIS_ACCEL \subseteq op.mask
    /\ ~cfg.accel_get_slave_descr
    /\ (op.mask \cap INV_THREE_AXIS_COMPASS) \notin {{}, INV_THREE_AXIS_COMPASS}
    /\ op.res = INV_ERROR_SERIAL_DEVICE_NOT_RECOGNIZED

\* C6: after every resetMotion, called on its own or by setActiveSensors,
\* with success or with the error of a device write, the motion state of
\* the context and its change flag are both MOVING.
C6_ResetLeavesMoving ==
    (\E i \in 1..Len(trace) : trace[i] = "inv_reset_motion")
    => /\ inv_obj.motion_state = INV_MOTION
       /\ inv_obj.flag_motion_state_change = INV_MOTION

\* resetMotion was called at rest and its first device write failed
C6_Witness ==
    /\ op.name = "inv_reset_motion"
    /\ op.pre.obj.motion_state = INV_NO_MOTION
    /\ op.res # INV_SUCCESS
    /\ Len(ext_calls) = 2
    /\ inv_obj.motion_state = INV_MOTION

\* C7: an update() in DMP_STARTED whose FIFO read succeeds and whose MPU
\* interrupt has fired calls the callbacks of the N occupied slots once
\* each, in slot order, each with the context.
C7_CallbacksInOrder ==
    LET n   == op.pre.cb.numInterruptProcesses
        cbs == SelectSeq(ext_calls, LAMBDA c : c.fn = "processInterruptCb")
    IN  (/\ op.name = "inv_update_data"
         /\ op.pre.state = INV_STATE_DMP_STARTED
         /\ op.pre.trig["INTSRC_MPU"]
         /\ Len(ext_calls) > 0
         /\ ext_calls[1].fn = "inv_read_and_process_fifo"
         /\ ext_calls[1].res = INV_SUCCESS)
        => /\ Len(cbs) = n
           /\ \A k \in 1..n :
                 /\ cbs[k].key = op.pre.cb.processInterruptCb[k]
                 /\ cbs[k].data = <<k>>
                 /\ cbs[k].s1 = {"&inv_obj"}

\* the registry was full, of different callbacks, when the interrupt fired
C7_Witness ==
    /\ op.name = "inv_update_data"
    /\ op.pre.state = INV_STATE_DMP_STARTED
    /\ op.pre.trig["INTSRC_MPU"]
    /\ op.pre.cb.numInterruptProcesses = MAX_INTERRUPT_PROCESSES
    /\ op.pre.cb.processInterruptCb[1] # op.pre.cb.processInterruptCb[2]
    /\ \E i \in 1..Len(ext_calls) : ext_calls[i].fn = "processInterruptCb"

\* C8: the gyroscope and the accelerometer calibration, in every state
\* other than DMP_OPENED, return ImproperState, make no external call and
\* so write no device memory, and leave the context as it was.
C8_CalibrationOutsideDmpOpened ==
    (/\ op.name \in {"inv_set_gyro_calibration", "inv_set_accel_calibration"}
     /\ op.pre.state # INV_STATE_DMP_OPENED)
    => /\ op.res = INV_ERROR_SM_IMPROPER_STATE
       /\ ext_calls = <<>>
       /\ mem = op.pre.mem
       /\ inv_obj = op.pre.obj

\* the gyroscope calibration was refused on a running device, where the
\* accelerometer calibration, with another matrix, is refused too
C8_Witness ==
    /\ op.name = "inv_set_gyro_calibration"
    /\ op.pre.state = INV_STATE_DMP_STARTED
    /\ op.res = INV_ERROR_SM_IMPROPER_STATE
    /\ inv_set_accel_calibration(op.pre, cfg, fault, FromInt(2), SwapNeg, 0).r
           = INV_ERROR_SM_IMPROPER_STATE

\* C9: the compass calibration, in every state other than DMP_OPENED,
\* returns ImproperState, writes no device memory and leaves compass_cal
\* and compass_sens as they were.
C9_CompassOutsideDmpOpened ==
    (/\ op.name = "inv_set_compass_calibration"
     /\ op.pre.state # INV_STATE_DMP_OPENED)
    => /\ op.res = INV_ERROR_SM_IMPROPER_STATE
       /\ \A i \in 1..Len(ext_calls) : ext_calls[i].fn # "inv_set_mpu_memory"
       /\ inv_obj.compass_cal = op.pre.obj.compass_cal
       /\ inv_obj.compass_sens = op.pre.obj.compass_sens

\* C10: in DMP_OPENED with a valid full-scale enum, apply-all runs the
\* gyroscope calibration, then that of the accelerometer if and only if one
\* is configured, then that of the compass if and only if one is
\* configured; a calibration that fails ends the call: its error is
\* returned and no calibration after it runs or writes device memory.
C10_ApplyOrder ==
    LET all  == << <<"inv_set_gyro_calibration", TRUE, GyroKeys>>,
                   <<"inv_set_accel_calibration", cfg.accel_present, AccelKeys>>,
                   <<"inv_set_compass_calibration", cfg.compass_present,
                     CompassKeys>> >>
        due  == SelectSeq(all, LAMBDA c : c[2])
        n    == Len(trace)
        rank(key) == CHOOSE i \in 1..Len(due) : key \in due[i][3]
    IN  (/\ op.name = "inv_apply_calibration"
         /\ GyroScaleOf(cfg.full_scale) # 0
         /\ op.pre.state = INV_STATE_DMP_OPENED)
        => /\ n \in 1..Len(due)
           /\ \A i \in 1..n : trace[i] = due[i][1]
           /\ op.res = INV_SUCCESS => n = Len(due)
           /\ \A i \in 1..Len(ext_calls) :
                 /\ ext_calls[i].fn = "inv_set_mpu_memory"
                 /\ \E j \in 1..n : ext_calls[i].key \in due[j][3]
           /\ \A i, j \in 1..Len(ext_calls) :
                 i < j => rank(ext_calls[i].key) <= rank(ext_calls[j].key)
           /\ op.res # INV_SUCCESS
                 => /\ ext_calls # <<>>
                    /\ ext_calls[Len(ext_calls)].res = op.res
                    /\ ext_calls[Len(ext_calls)].key \in due[n][3]
           /\ \A i \in 1..Len(ext_calls) :
                 (/\ ext_calls[i].res # INV_SUCCESS
                  /\ ext_calls[i].key \in GyroKeys \cup AccelKeys)
                 => i = Len(ext_calls) /\ op.res = ext_calls[i].res

\* a write of the gyroscope calibration failed on a board with
\* accelerometer and compass: apply-all returned its error
C10_Witness ==
    /\ op.name = "inv_apply_calibration"
    /\ op.pre.state = INV_STATE_DMP_OPENED
    /\ cfg.accel_present /\ cfg.compass_present
    /\ op.res # INV_SUCCESS
    /\ trace = <<"inv_set_gyro_calibration">>
    /\ Len(ext_calls) = 2

\* C11: apply-all with a full-scale enum that is none of 250, 500, 1000 and
\* 2000 dps returns InvalidParameter in every state, makes no external call
\* and so writes no device memory, runs no calibration and leaves the
\* context, accel_sens and compass_sens with it, as it was.
C11_UnknownFullScale ==
    (/\ op.name = "inv_apply_calibration"
     /\ cfg.full_scale \notin {"MPU_FS_250DPS", "MPU_FS_500DPS",
                                "MPU_FS_1000DPS", "MPU_FS_2000DPS"})
    => /\ op.res = INV_ERROR_INVALID_PARAMETER
       /\ ext_calls = <<>>
       /\ trace = <<>>
       /\ mem = op.pre.mem
       /\ inv_obj = op.pre.obj

\* apply-all was called in DMP_OPENED on a board with accelerometer and
\* compass whose full-scale setting is unknown
C11_Witness ==
    /\ op.name = "inv_apply_calibration"
    /\ cfg.full_scale = "MPU_FS_UNKNOWN"
    /\ cfg.accel_present /\ cfg.compass_present
    /\ op.pre.state = INV_STATE_DMP_OPENED
    /\ op.res = INV_ERROR_INVALID_PARAMETER

\* C12: fail fast.  In every operation an external call that returns
\* non-success is the last external call of the operation, and the
\* operation returns its error.
C12_FailFast ==
    \A i \in 1..Len(ext_calls) :
        ext_calls[i].res \notin {INV_SUCCESS, "void"}
        => /\ i = Len(ext_calls)
           /\ op.res = ext_calls[i].res

\* C13: gyroscope axis dominance.  For every row of the matrix the
\* calibration takes the entry of largest magnitude, the lowest index
\* winning ties, writes the base opcode of that axis for the row to
\* KEY_FCFG_1, and sets the low bit of the companion opcode of the row in
\* KEY_FCFG_3 if and only if the winning entry is negative.
C13_AxisDominance ==
    (/\ op.name = "inv_set_gyro_calibration"
     /\ op.res = INV_SUCCESS
     /\ op.pre.state = INV_STATE_DMP_OPENED)
    => \A i \in 0..2 :
          LET row  == SubSeq(op.orient, 3 * i + 1, 3 * i + 3)
              most == CHOOSE k \in 1..3 : \A j \in 1..3 : Abs(row[k]) >= Abs(row[j])
              big  == {k \in 1..3 : Abs(row[k]) = Abs(row[most])}
              win  == CHOOSE k \in big : \A j \in big : k <= j
          IN  /\ mem["KEY_FCFG_1"][i + 1] = <<DINAC9, DINA2C, DINACB>>[win]
              /\ (mem["KEY_FCFG_3"][i + 1] % 2 = 1) <=> (row[win] < 0)

\* C14, as the specification states it: a row of zeros is encoded as axis 2
\* with the sign flag clear.
C14_AsStated ==
    (/\ op.name = "inv_set_gyro_calibration"
     /\ op.res = INV_SUCCESS
     /\ op.pre.state = INV_STATE_DMP_OPENED)
    => \A i \in 0..2 :
          SubSeq(op.orient, 3 * i + 1, 3 * i + 3) = <<0, 0, 0>>
          => /\ mem["KEY_FCFG_1"][i + 1] = DINACB
             /\ mem["KEY_FCFG_3"][i + 1] % 2 = 0

\* C14, as the code has it: a row of zeros is encoded as axis 0 with the
\* sign flag clear: the opcode of axis 0 is written for that row and the
\* companion opcode of the row is written with its low bit 0.
C14_ZeroRowIsAxis0 ==
    (/\ op.name = "inv_set_gyro_calibration"
     /\ op.res = INV_SUCCESS
     /\ op.pre.state = INV_STATE_DMP_OPENED)
    => \A i \in 0..2 :
          SubSeq(op.orient, 3 * i + 1, 3 * i + 3) = <<0, 0, 0>>
          => /\ mem["KEY_FCFG_1"][i + 1] = DINAC9
             /\ mem["KEY_FCFG_3"][i + 1] = <<DINA36, DINA56, DINA76>>[i + 1]

\* the gyroscope calibration ran with a matrix whose second row is zero
C14_Witness ==
    /\ op.name = "inv_set_gyro_calibration"
    /\ op.res = INV_SUCCESS
    /\ op.pre.state = INV_STATE_DMP_OPENED
    /\ SubSeq(op.orient, 4, 6) = <<0, 0, 0>>
    /\ Len(ext_calls) = 4

\* C15, as the specification states it: the orientation scalar of the
\* identity matrix is 0.
C15_AsStated ==
    (/\ op.name = "inv_set_accel_calibration"
     /\ op.res = INV_SUCCESS
     /\ op.pre.state = INV_STATE_DMP_OPENED
     /\ op.orient = Identity)
    => inv_orientation_matrix_to_scalar(op.orient) = 0

\* C15, as the code has it: the orientation scalar of the identity matrix
\* is 136 (binary 010_001_000: row codes 0, 1 and 2), so that the
\* accelerometer calibration writes the three axis opcodes in their order
\* to KEY_FCFG_2 and the three companion opcodes without sign bit to
\* KEY_FCFG_7.
C15_IdentityScalar ==
    (/\ op.name = "inv_set_accel_calibration"
     /\ op.res = INV_SUCCESS
     /\ op.pre.state = INV_STATE_DMP_OPENED
     /\ op.orient = Identity)
    => /\ inv_orientation_matrix_to_scalar(op.orient) = 136
       /\ mem["KEY_FCFG_2"] = <<DINA4C, DINACD, DINA6C>>
       /\ mem["KEY_FCFG_7"] = <<DINA26, DINA46, DINA66>>

\* the accelerometer calibration ran with the identity matrix
C15_Witness ==
    /\ op.name = "inv_set_accel_calibration"
    /\ op.res = INV_SUCCESS
    /\ op.pre.state = INV_STATE_DMP_OPENED
    /\ op.orient = Identity
    /\ \E i \in 1..Len(ext_calls) : ext_calls[i].key = "KEY_FCFG_2"

\* C16, as the specification states it: in the orientation scalar a row of
\* zeros has the 3-bit code of axis 2 without sign (axis bits 2, sign bit
\* 0), in each of the three row positions.
C16_AsStated ==
    (/\ op.name = "inv_set_accel_calibration"
     /\ op.res = INV_SUCCESS
     /\ op.pre.state = INV_STATE_DMP_OPENED)
    => \A i \in 0..2 :
          SubSeq(op.orient, 3 * i + 1, 3 * i + 3) = <<0, 0, 0>>
          => (inv_orientation_matrix_to_scalar(op.orient) \div (8 ^ i)) % 8 = 2

\* C16, as the code has it: in the orientation scalar a row of zeros has
\* the 3-bit code 7 (axis bits 3, sign bit 1), the error code of
\* inv_row_2_scale, in each of the three row positions; the calibration
\* then takes the opcode of the row from past the end of its 3-entry
\* table and sets the sign bit of the companion opcode of the row.
C16_ZeroRowIsCode7 ==
    (/\ op.name = "inv_set_accel_calibration"
     /\ op.res = INV_SUCCESS
     /\ op.pre.state = INV_STATE_DMP_OPENED)
    => \A i \in 0..2 :
          SubSeq(op.orient, 3 * i + 1, 3 * i + 3) = <<0, 0, 0>>
          => /\ (inv_orientation_matrix_to_scalar(op.orient) \div (8 ^ i)) % 8 = 7
             /\ mem["KEY_FCFG_2"][i + 1] \in UBBytes
             /\ mem["KEY_FCFG_7"][i + 1] = <<DINA26, DINA46, DINA66>>[i + 1] + 1

\* the accelerometer calibration ran with a matrix whose third row is zero
C16_Witness ==
    /\ op.name = "inv_set_accel_calibration"
    /\ op.res = INV_SUCCESS
    /\ op.pre.state = INV_STATE_DMP_OPENED
    /\ SubSeq(op.orient, 7, 9) = <<0, 0, 0>>
    /\ mem["KEY_FCFG_2"][3] = 255

\* C17: after every recompute of the bias functions (inv_set_bias_update
\* that passes its state check, whether or not a later device write fails)
\* bias_mode has both magnetic bits clear on a board without compass and
\* the low pass filter bit clear on a board with a compass, whatever the
\* caller requested and whatever bias_mode held before.
C17_BiasModeFitsBoard ==
    (/\ op.name = "inv_set_bias_update"
     /\ op.pre.state = INV_STATE_DMP_OPENED)
    => IF cfg.compass_present
       THEN "INV_BIAS_FROM_LPF" \notin inv_params_obj.bias_mode
       ELSE inv_params_obj.bias_mode
              \cap {"INV_MAG_BIAS_FROM_GYRO", "INV_MAG_BIAS_FROM_MOTION"} = {}

\* a recompute on a board without compass was asked for a magnetic tracker
\* and its write of the filter opcodes failed
C17_Witness ==
    /\ op.name = "inv_set_bias_update"
    /\ op.pre.state = INV_STATE_DMP_OPENED
    /\ ~cfg.compass_present
    /\ "INV_MAG_BIAS_FROM_GYRO" \in op.mask
    /\ "INV_BIAS_FROM_LPF" \in inv_params_obj.bias_mode
    /\ op.res = ErrOf("inv_set_mpu_memory", "KEY_FCFG_5")

\* C18: setActiveSensors, the enable of the motion interrupt and the enable
\* of the FIFO interrupt, called in SERIAL_CLOSED or SERIAL_OPENED, return
\* ImproperState without side effects: requested_sensors and
\* interrupt_sources are unchanged and no external call is made.
C18_EnablesBelowDmpOpened ==
    (/\ op.name \in {"inv_set_mpu_sensors", "inv_set_motion_interrupt",
                     "inv_set_fifo_interrupt"}
     /\ op.pre.state \in {INV_STATE_SERIAL_CLOSED, INV_STATE_SERIAL_OPENED})
    => /\ op.res = INV_ERROR_SM_IMPROPER_STATE
       /\ ext_calls = <<>>
       /\ requested_sensors = op.pre.req
       /\ inv_obj.interrupt_sources = op.pre.obj.interrupt_sources
       /\ inv_obj = op.pre.obj
       /\ mem = op.pre.mem
       /\ state = op.pre.state

\* the enable of the FIFO interrupt was asked to switch on with the
\* transport open and the DMP closed
C18_Witness ==
    /\ op.name = "inv_set_fifo_interrupt"
    /\ op.mask = {"on"}
    /\ op.pre.state = INV_STATE_SERIAL_OPENED
    /\ op.res = INV_ERROR_SM_IMPROPER_STATE

\* C19: when the registered mode-change callback returns failure,
\* setActiveSensors returns that error before any further mutation:
\* requested_sensors keeps the old mask, the FIFO rate is neither read nor
\* set, and no restart, motion reset, sensor stop or re-enable of the
\* accelerometer interrupt is issued.
C19_CallbackFailureStops ==
    \A i \in 1..Len(ext_calls) :
        (/\ op.name = "inv_set_mpu_sensors"
         /\ ext_calls[i].fn = "mode_change_func"
         /\ ext_calls[i].res # INV_SUCCESS)
        => /\ op.res = ext_calls[i].res
           /\ i = Len(ext_calls)
           /\ requested_sensors = op.pre.req
           /\ fifo_rate = op.pre.fifo_rate
           /\ \A j \in 1..Len(ext_calls) :
                 /\ ext_calls[j].fn \notin {"inv_get_fifo_rate", "inv_set_fifo_rate",
                                            "inv_dl_start", "inv_dl_stop",
                                            "inv_set_mpu_memory"}
                 /\ ext_calls[j].s1 # {"MPU_SLAVE_IRQ_TYPE_DATA_READY"}
           /\ trace = <<>>
           /\ inv_obj = op.pre.obj
           /\ mem = op.pre.mem
           /\ state = op.pre.state

\* the callback failed on a running device, at rest, that was asked for
\* the accelerometer in place of the sensors it had
C19_Witness ==
    /\ op.name = "inv_set_mpu_sensors"
    /\ op.pre.state = INV_STATE_DMP_STARTED
    /\ op.pre.obj.motion_state = INV_NO_MOTION
    /\ op.mask # op.pre.req
    /\ INV_THREE_AXIS_ACCEL \subseteq op.mask
    /\ ~(INV_DMP_PROCESSOR \subseteq op.mask)
    /\ op.res = ErrOf("mode_change_func", "mode_cb")
    /\ Len(ext_calls) = 1

\* C20: with a mode-change callback registered, every setActiveSensors
\* call that passes the state check, the validation and the DMP turn-on
\* invokes the callback exactly once, with requested_sensors as it was
\* before the call and the new mask, and before the FIFO rate is read and
\* requested_sensors is changed; a call that fails earlier invokes it zero
\* times.
C20_CallbackOnce ==
    LET groups == << INV_THREE_AXIS_ACCEL, INV_THREE_AXIS_COMPASS,
                     INV_THREE_AXIS_PRESSURE >>
        descr  == << cfg.accel_get_slave_descr, cfg.compass_get_slave_descr,
                     cfg.pressure_get_slave_descr >>
        valid  == \A i \in 1..3 :
                     \/ (op.mask \cap groups[i]) = {}
                     \/ groups[i] \subseteq op.mask /\ descr[i]
        turnOn == INV_DMP_PROCESSOR \subseteq op.mask
                  /\ ~(INV_DMP_PROCESSOR \subseteq op.pre.req)
        turnOnFails ==
            turnOn /\ \E key \in {"MPU_SLAVE_CONFIG_ODR_RESUME",
                                   "MPU_SLAVE_CONFIG_IRQ_RESUME"} :
                          Fails(fault, "inv_mpu_config_accel", key)
        cbs == {i \in 1..Len(ext_calls) : ext_calls[i].fn = "mode_change_func"}
    IN  (/\ op.name = "inv_set_mpu_sensors"
         /\ op.pre.obj.mode_change_func # "NULL")
        => IF op.pre.state >= INV_STATE_DMP_OPENED /\ valid /\ ~turnOnFails
           THEN /\ Cardinality(cbs) = 1
                /\ \A i \in cbs :
                      /\ ext_calls[i].key = op.pre.obj.mode_change_func
                      /\ ext_calls[i].s1 = op.pre.req
                      /\ ext_calls[i].s2 = op.mask
                      /\ \A j \in 1..Len(ext_calls) :
                            ext_calls[j].fn = "inv_get_fifo_rate" => i < j
                      /\ ext_calls[i].res = INV_SUCCESS
                         => /\ requested_sensors = op.mask
                            /\ i < Len(ext_calls)
                            /\ ext_calls[i + 1].fn = "inv_get_fifo_rate"
           ELSE cbs = {}

\* the callback was called once, after the DMP turn-on, with the old mask
\* and a new one, and requested_sensors was changed after it
C20_Witness ==
    /\ op.name = "inv_set_mpu_sensors"
    /\ op.pre.obj.mode_change_func = "mode_cb"
    /\ op.res = INV_SUCCESS
    /\ INV_DMP_PROCESSOR \subseteq op.mask
    /\ ~(INV_DMP_PROCESSOR \subseteq op.pre.req)
    /\ op.pre.req # {}
    /\ requested_sensors = op.mask
    /\ \E i \in 1..Len(ext_calls) :
          /\ ext_calls[i].fn = "mode_change_func"
          /\ ext_calls[i].s1 = op.pre.req
          /\ ext_calls[i].s2 = op.mask
          /\ i = 4

\* C21: setActiveSensors in DMP_STARTED, once it has set requested_sensors
\* to the new mask, starts the sensors of the new mask, resets the motion
\* and stops the sensors that are not in the new mask, in this order; the
\* first of the three that fails ends the call and is returned, with
\* requested_sensors equal to the new mask.  In DMP_OPENED none of the
\* three is done and the mask is recorded only.
C21_RestartOrder ==
    (/\ op.name = "inv_set_mpu_sensors"
     /\ \E t \in 1..Len(trace) : trace[t] = "requested_sensors")
    => /\ requested_sensors = op.mask
       /\ \E g \in 1..Len(ext_calls) :
            /\ ext_calls[g].fn = "inv_get_fifo_rate"
            /\ LET rest  == SubSeq(ext_calls, g + 1, Len(ext_calls))
                   fns   == [i \in 1..Len(rest) |-> rest[i].fn]
                   fail  == {i \in 1..Len(rest) :
                                /\ rest[i].res \notin {INV_SUCCESS, "void"}
                                /\ rest[i].fn # "inv_set_fifo_rate"}
                   three == << "inv_dl_start", "inv_get_tick_count",
                               "inv_set_mpu_memory", "inv_set_mpu_memory",
                               "inv_set_mpu_memory", "inv_set_mpu_memory",
                               "inv_set_motion_state", "inv_dl_stop" >>
                   n     == IF Len(rest) < 8 THEN Len(rest) ELSE 8
               IN  IF op.pre.state = INV_STATE_DMP_STARTED
                   THEN /\ n >= 1
                        /\ SubSeq(fns, 1, n) = SubSeq(three, 1, n)
                        /\ rest[1].s1 = op.mask
                        /\ n = 8 => rest[8].s1 = AllSensorBits \ op.mask
                        /\ \A i \in fail : i <= 8 =>
                               /\ i = Len(rest)
                               /\ op.res = rest[i].res
                        /\ n < 8 => n \in fail
                   ELSE /\ trace = << "requested_sensors" >>
                        /\ \A i \in 1..Len(rest) : rest[i].fn \notin
                               {"inv_dl_start", "inv_dl_stop", "inv_get_tick_count",
                                "inv_set_mpu_memory", "inv_set_motion_state"}

\* on a running device the sensors were started and the motion reset, and
\* the stop of the sensors that were not asked for any more failed
C21_Witness ==
    /\ op.name = "inv_set_mpu_sensors"
    /\ op.pre.state = INV_STATE_DMP_STARTED
    /\ op.res = ErrOf("inv_dl_stop", "")
    /\ op.pre.req \ op.mask # {}
    /\ requested_sensors = op.mask
    /\ mem["KEY_D_0_96"] = inv_int32_to_big8(1073741824)
    /\ ext_calls[Len(ext_calls)].fn = "inv_dl_stop"

\* C22: over every sequence of calls, a call of setActiveSensors that passes the
\* state check and the validation of the mask sets up the output data rate
\* of the accelerometer, sets the interrupt mode of the accelerometer to
\* none and initialises the FIFO hardware, in this order and before any
\* other call, if and only if the mask has the DMP bit and
\* requested_sensors does not; when one of the two accelerometer calls
\* fails the call ends with that error before the FIFO hardware is
\* initialised and before the mode-change callback, and requested_sensors
\* is unchanged.  A call that fails the state check or the validation does
\* none of this.
C22_DmpTurnOn ==
    LET groups == << INV_THREE_AXIS_ACCEL, INV_THREE_AXIS_COMPASS,
                     INV_THREE_AXIS_PRESSURE >>
        descr  == << cfg.accel_get_slave_descr, cfg.compass_get_slave_descr,
                     cfg.pressure_get_slave_descr >>
        valid  == \A i \in 1..3 :
                     \/ (op.mask \cap groups[i]) = {}
                     \/ groups[i] \subseteq op.mask /\ descr[i]
        turnOn == /\ op.pre.state >= INV_STATE_DMP_OPENED
                  /\ valid
                  /\ INV_DMP_PROCESSOR \subseteq op.mask
                  /\ ~(INV_DMP_PROCESSOR \subseteq op.pre.req)
        n      == Len(ext_calls)
        apply  == << IF op.pre.state = INV_STATE_DMP_STARTED THEN 1 ELSE 0 >>
    IN  op.name = "inv_set_mpu_sensors"
        => IF turnOn
           THEN /\ n >= 1
                /\ ext_calls[1].fn = "inv_mpu_config_accel"
                /\ ext_calls[1].key = "MPU_SLAVE_CONFIG_ODR_RESUME"
                /\ ext_calls[1].data = apply
                /\ IF ext_calls[1].res # INV_SUCCESS
                   THEN /\ n = 1
                        /\ op.res = ext_calls[1].res
                        /\ requested_sensors = op.pre.req
                   ELSE /\ n >= 2
                        /\ ext_calls[2].fn = "inv_mpu_config_accel"
                        /\ ext_calls[2].key = "MPU_SLAVE_CONFIG_IRQ_RESUME"
                        /\ ext_calls[2].s1 = {"MPU_SLAVE_IRQ_TYPE_NONE"}
                        /\ ext_calls[2].data = apply
                        /\ IF ext_calls[2].res # INV_SUCCESS
                           THEN /\ n = 2
                                /\ op.res = ext_calls[2].res
                                /\ requested_sensors = op.pre.req
                           ELSE /\ n >= 3
                                /\ ext_calls[3].fn = "inv_init_fifo_hardare"
                                /\ \A i \in 4..n :
                                      /\ ext_calls[i].fn # "inv_init_fifo_hardare"
                                      /\ ext_calls[i].key # "MPU_SLAVE_CONFIG_ODR_RESUME"
           ELSE \A i \in 1..n :
                   /\ ext_calls[i].fn # "inv_init_fifo_hardare"
                   /\ ext_calls[i].key # "MPU_SLAVE_CONFIG_ODR_RESUME"
                   /\ ext_calls[i].s1 # {"MPU_SLAVE_IRQ_TYPE_NONE"}

\* the DMP was turning on with a callback registered, and the call that
\* sets the interrupt mode of the accelerometer failed
C22_Witness ==
    /\ op.name = "inv_set_mpu_sensors"
    /\ op.pre.state = INV_STATE_DMP_STARTED
    /\ op.pre.obj.mode_change_func # "NULL"
    /\ INV_DMP_PROCESSOR \subseteq op.mask
    /\ op.pre.req # {}
    /\ ~(INV_DMP_PROCESSOR \subseteq op.pre.req)
    /\ Len(ext_calls) = 2
    /\ op.res = ErrOf("inv_mpu_config_accel", "MPU_SLAVE_CONFIG_IRQ_RESUME")
    /\ requested_sensors = op.pre.req

\* C23: update() in DMP_STARTED calls the FIFO read exactly once, with the
\* budget 100 when requested_sensors has the DMP bit and with the budget 1
\* otherwise; when the read fails update() returns its error and reads or
\* clears no interrupt trigger, calls no callback and does not ask for the
\* FIFO status.
C23_FifoReadOnce ==
    (op.name = "inv_update_data" /\ op.pre.state = INV_STATE_DMP_STARTED)
    => /\ Len(ext_calls) >= 1
       /\ ext_calls[1].fn = "inv_read_and_process_fifo"
       /\ ext_calls[1].data =
             << IF INV_DMP_PROCESSOR \subseteq op.pre.req THEN 100 ELSE 1 >>
       /\ \A i \in 2..Len(ext_calls) : ext_calls[i].fn # "inv_read_and_process_fifo"
       /\ ext_calls[1].res # INV_SUCCESS
          => /\ Len(ext_calls) = 1
             /\ op.res = ext_calls[1].res
             /\ int_trigger = op.pre.trig

\* the FIFO read failed without the DMP, both interrupts pending and a
\* callback registered
C23_Witness ==
    /\ op.name = "inv_update_data"
    /\ op.pre.state = INV_STATE_DMP_STARTED
    /\ op.pre.req # {}
    /\ ~(INV_DMP_PROCESSOR \subseteq op.pre.req)
    /\ op.pre.trig["INTSRC_MPU"] /\ op.pre.trig["INTSRC_AUX1"]
    /\ op.pre.cb.numInterruptProcesses > 0
    /\ op.res = ErrOf("inv_read_and_process_fifo", "")
    /\ ext_calls[1].data = <<1>>

\* C24: after a FIFO read that succeeded update() handles the two
\* interrupt sources one by one: each is read, and cleared when it is set,
\* so that both triggers are clear when update() returns; the callbacks
\* are called if and only if the MPU source had fired, not when the
\* auxiliary source alone had; and update() returns the FIFO status it
\* asks for after the callbacks.
C24_SourcesOneByOne ==
    LET n       == Len(ext_calls)
        fnkey   == [i \in 1..n |-> << ext_calls[i].fn, ext_calls[i].key >>]
        aux     == op.pre.trig["INTSRC_AUX1"]
        mpu     == op.pre.trig["INTSRC_MPU"]
        cleared == {ext_calls[i].key : i \in {j \in 1..n :
                       ext_calls[j].fn = "inv_clear_interrupt_trigger"}}
        cbs     == {i \in 1..n : ext_calls[i].fn = "processInterruptCb"}
        slots   == {k \in 1..op.pre.cb.numInterruptProcesses :
                       op.pre.cb.processInterruptCb[k] # "NULL"}
    IN  (/\ op.name = "inv_update_data"
         /\ op.pre.state = INV_STATE_DMP_STARTED
         /\ ext_calls[1].res = INV_SUCCESS)
        => /\ int_trigger = [src \in IntSources |-> FALSE]
           /\ fnkey[2] = << "inv_get_interrupt_trigger", "INTSRC_AUX1" >>
           /\ ext_calls[2].data = << IF aux THEN 1 ELSE 0 >>
           /\ cleared = {src \in IntSources : op.pre.trig[src]}
           /\ LET q == IF aux THEN 4 ELSE 3
              IN  /\ fnkey[q] = << "inv_get_interrupt_trigger", "INTSRC_MPU" >>
                  /\ ext_calls[q].data = << IF mpu THEN 1 ELSE 0 >>
           /\ Cardinality(cbs) = IF mpu THEN Cardinality(slots) ELSE 0
           /\ ext_calls[n].fn = "inv_get_fifo_status"
           /\ \A i \in 1..(n - 1) : ext_calls[i].fn # "inv_get_fifo_status"
           /\ op.res = ext_calls[n].res

\* the auxiliary source alone had fired, with a callback registered, and
\* the FIFO status came back with an error
C24_Witness ==
    /\ op.name = "inv_update_data"
    /\ op.pre.state = INV_STATE_DMP_STARTED
    /\ op.pre.trig["INTSRC_AUX1"] /\ ~op.pre.trig["INTSRC_MPU"]
    /\ op.pre.cb.numInterruptProcesses > 0
    /\ ~int_trigger["INTSRC_AUX1"]
    /\ op.res = ErrOf("inv_get_fifo_status", "")
    /\ Len(ext_calls) = 5

\* C25: resetMotion writes the device memory in a fixed order: the three
\* opcodes, the threshold of the motion duration as 2 bytes, high byte
\* first, the block of 8 zero bytes, the 4 bytes of 0x40000000; it calls
\* the setter of the motion state only after all four writes succeeded.
\* When the k-th write fails it returns the error of that write with the
\* first k-1 writes applied, no later write made and the setter not called.
C25_ResetWriteOrder ==
    LET keys   == << "KEY_CFG_18", "KEY_D_1_106", "KEY_D_1_96", "KEY_D_0_96" >>
        md     == op.pre.obj.motion_duration
        data   == << << DINAD8 + 2, DINA0C, DINAD8 + 1 >>,
                     << md \div 256, md % 256 >>,
                     << 0, 0, 0, 0, 0, 0, 0, 0 >>,
                     << 64, 0, 0, 0 >> >>
        n      == Len(ext_calls)
        writes == SelectSeq(ext_calls, LAMBDA c : c.fn = "inv_set_mpu_memory")
        k      == Len(writes)
        setter == {i \in 1..n : ext_calls[i].fn = "inv_set_motion_state"}
    IN  op.name = "inv_reset_motion"
        => /\ k \in 1..4
           /\ \A i \in 1..k : /\ writes[i].key = keys[i]
                               /\ writes[i].data = data[i]
           /\ \A i \in 1..(k - 1) : /\ writes[i].res = INV_SUCCESS
                                     /\ mem[keys[i]] = data[i]
           /\ IF writes[k].res # INV_SUCCESS
              THEN /\ op.res = writes[k].res
                   /\ ext_calls[n] = writes[k]
                   /\ setter = {}
                   /\ \A i \in k..4 : mem[keys[i]] = op.pre.mem[keys[i]]
              ELSE /\ k = 4
                   /\ mem[keys[4]] = data[4]
                   /\ setter = {n}
                   /\ op.res = INV_SUCCESS

\* the third write of resetMotion failed on a device whose motion memory
\* had not been written before
C25_Witness ==
    /\ op.name = "inv_reset_motion"
    /\ op.res = ErrOf("inv_set_mpu_memory", "KEY_D_1_96")
    /\ op.pre.mem["KEY_CFG_18"] = <<>>
    /\ mem["KEY_D_1_106"] = << 6, 0 >>
    /\ mem["KEY_D_1_96"] = <<>>
    /\ mem["KEY_D_0_96"] = <<>>

\* the operation of the call in progress, called again with the same
\* arguments from the machine m on a healthy device, at the time tick and
\* with the byte ub past the end of the opcode table
Reinvoke(m, tick, ub) ==
    CASE op.name = "inv_set_gyro_calibration" ->
            inv_set_gyro_calibration(m, cfg, NoFault,
                FromInt(GyroScaleOf(cfg.full_scale)), op.orient)
      [] op.name = "inv_set_accel_calibration" ->
            inv_set_accel_calibration(m, cfg, NoFault, FromInt(2), op.orient, ub)
      [] OTHER -> inv_reset_motion(m, NoFault, tick)

\* the call in progress is one of the three operations
Recoverable ==
    op.name \in {"inv_set_gyro_calibration", "inv_set_accel_calibration",
                 "inv_reset_motion"}

\* the call in progress ended with the error of a device-memory write
WriteFailed ==
    /\ Recoverable
    /\ Len(ext_calls) > 0
    /\ ext_calls[Len(ext_calls)].fn = "inv_set_mpu_memory"
    /\ ext_calls[Len(ext_calls)].res # INV_SUCCESS
    /\ op.res = ext_calls[Len(ext_calls)].res

\* the bytes the out-of-bounds read may yield in the call in progress
UbOfCall ==
    IF op.name = "inv_set_accel_calibration" THEN UbChoices(op.orient) ELSE {0}

\* the rows of zeros of the matrix of an accelerometer calibration
ZeroRowsOfCall ==
    IF op.name = "inv_set_accel_calibration"
    THEN {i \in 1..3 : SubSeq(op.orient, 3 * i - 2, 3 * i) = <<0, 0, 0>>}
    ELSE {}

\* two machines agree but for the time of the last reset and for the
\* opcodes that were read past the end of the table
SameButTimeAndUb(m1, m2) ==
    /\ [m1.obj EXCEPT !.no_motion_accel_time = 0]
         = [m2.obj EXCEPT !.no_motion_accel_time = 0]
    /\ \A k \in Keys :
          IF k = "KEY_FCFG_2" /\ ZeroRowsOfCall # {}
          THEN /\ Len(m1.mem[k]) = Len(m2.mem[k])
               /\ \A i \in 1..Len(m1.mem[k]) :
                     i \notin ZeroRowsOfCall => m1.mem[k][i] = m2.mem[k][i]
          ELSE m1.mem[k] = m2.mem[k]

\* C26, as the specification states it: for the gyroscope calibration, the
\* accelerometer calibration and resetMotion, a call that failed at a
\* device-memory write, followed by a call that succeeds with the same
\* arguments and configuration, leaves the device memory and the context
\* as a single successful call from the same starting state leaves them;
\* a second successful call changes nothing.
C26_AsStated ==
    \A tick \in RecoveryTicks : \A ub \in UbOfCall :
        /\ WriteFailed
           => LET again  == Reinvoke(Cur, tick, ub)
                  single == Reinvoke(op.pre, tick, ub)
              IN  /\ again.r = INV_SUCCESS
                  /\ again.m.mem = single.m.mem
                  /\ again.m.obj = single.m.obj
        /\ (Recoverable /\ op.res = INV_SUCCESS)
           => LET second == Reinvoke(Cur, tick, ub)
              IN  /\ second.r = INV_SUCCESS
                  /\ second.m.mem = mem
                  /\ second.m.obj = inv_obj

\* C26, as the code has it: the recovery holds but for two things.
\* resetMotion stores the tick count it reads in no_motion_accel_time, so
\* that the field holds the time of the last call, and a second successful
\* call at a later time changes it.  For a matrix with a row of zeros the
\* accelerometer calibration writes in KEY_FCFG_2, for that row, the byte
\* it reads past the end of its opcode table, which may differ from one
\* call to the next.  Every other device-memory byte and context field is
\* left by a failed call followed by a successful one as by a single
\* successful call from the same starting state, and is left unchanged by
\* a second successful call.
C26_RecoveryButTimeAndUb ==
    \A tick \in RecoveryTicks : \A ub \in UbOfCall :
        /\ WriteFailed
           => LET again == Reinvoke(Cur, tick, ub)
              IN  /\ again.r = INV_SUCCESS
                  /\ \A t1 \in RecoveryTicks : \A u1 \in UbOfCall :
                        SameButTimeAndUb(again.m, Reinvoke(op.pre, t1, u1).m)
                  /\ op.name = "inv_reset_motion"
                     => again.m.obj.no_motion_accel_time = tick
                  /\ \A i \in ZeroRowsOfCall : again.m.mem["KEY_FCFG_2"][i] = ub
        /\ (Recoverable /\ op.res = INV_SUCCESS)
           => LET second == Reinvoke(Cur, tick, ub)
              IN  /\ second.r = INV_SUCCESS
                  /\ SameButTimeAndUb(second.m, Cur)
                  /\ op.name = "inv_reset_motion"
                     => second.m.obj.no_motion_accel_time = tick
                  /\ \A i \in ZeroRowsOfCall : second.m.mem["KEY_FCFG_2"][i] = ub

\* resetMotion, called at rest some time after an earlier reset, failed at
\* its second write
C26_Witness ==
    /\ op.name = "inv_reset_motion"
    /\ WriteFailed
    /\ op.res = ErrOf("inv_set_mpu_memory", "KEY_D_1_106")
    /\ op.pre.obj.motion_state = INV_NO_MOTION
    /\ op.pre.obj.no_motion_accel_time = 100
    /\ inv_obj.no_motion_accel_time = 200
    /\ mem["KEY_CFG_18"] # <<>>

\* C27: for every matrix over {-1, 0, 1}, a row of zeros included, the
\* accelerometer calibration reads its table of 3 opcodes at the indices
\* 0, 1 and 2 only: the low two bits of the code of a row are never 3.
C27_TableIndexInBounds ==
    (/\ op.name = "inv_set_accel_calibration"
     /\ \E c \in 1..Len(ext_calls) : ext_calls[c].key = "KEY_FCFG_2")
    => \A i \in 0..2 :
          (inv_orientation_matrix_to_scalar(op.orient) \div (8 ^ i)) % 4 \in {0, 1, 2}

\* C28: when the enable of the motion interrupt or of the FIFO interrupt,
\* called to switch on or off, returns an error, interrupt_sources is as
\* it was before the call, so that a bit of interrupt_sources is set only
\* when the enable opcode of its interrupt was written to the device.
C28_ErrorKeepsSources ==
    (/\ op.name \in {"inv_set_motion_interrupt", "inv_set_fifo_interrupt"}
     /\ op.res # INV_SUCCESS)
    => inv_obj.interrupt_sources = op.pre.obj.interrupt_sources

\* C29: after every sequence of serial start and serial stop, in which the
\* opening and the closing of the transport and the state transition may
\* each fail, the state is SERIAL_CLOSED if and only if the handle of the
\* transport is closed; a serial start that returns an error leaves the
\* state SERIAL_CLOSED, and a serial start from SERIAL_OPENED on returns
\* success without opening the transport again.
C29_ClosedIffHandleClosed ==
    /\ (state = INV_STATE_SERIAL_CLOSED) <=> (g_mlsl_handle = "closed")
    /\ (op.name = "inv_serial_start" /\ op.res # INV_SUCCESS)
       => state = INV_STATE_SERIAL_CLOSED
    /\ (op.name = "inv_serial_start"
        /\ op.pre.state >= INV_STATE_SERIAL_OPENED)
       => /\ op.res = INV_SUCCESS
          /\ ext_calls = <<>>

\* C30: over every sequence of the public operations of the layer (serial
\* start and stop, apply-all, accelerometer calibration, setActiveSensors,
\* update, resetMotion, the interrupt enables) a calibration key of the
\* device memory (the opcodes and scale factors of the gyroscope and of
\* the accelerometer, the matrix cells of the compass) is written only
\* while the state is DMP_OPENED, never in DMP_STARTED or below DMP_OPENED.
C30_CalibrationWritesInDmpOpened ==
    /\ \A i \in 1..Len(ext_calls) :
          (/\ ext_calls[i].fn = "inv_set_mpu_memory"
           /\ ext_calls[i].key \in CalibrationKeys)
          => /\ op.pre.state = INV_STATE_DMP_OPENED
             /\ state = INV_STATE_DMP_OPENED
    /\ \A k \in CalibrationKeys :
          (op.name # "idle" /\ mem[k] # op.pre.mem[k])
          => op.pre.state = INV_STATE_DMP_OPENED

\* apply-all wrote the calibration of the three sensors in DMP_OPENED
\* with the sensors enabled and both interrupts switched on
C30_Witness ==
    /\ op.name = "inv_apply_calibration"
    /\ op.pre.state = INV_STATE_DMP_OPENED
    /\ op.res = INV_SUCCESS
    /\ requested_sensors # {}
    /\ inv_obj.interrupt_sources = {"INV_INT_MOTION", "INV_INT_FIFO"}
    /\ \A k \in {"KEY_FCFG_1", "KEY_FCFG_7", "KEY_CPASS_MTX_22"} :
          \E i \in 1..Len(ext_calls) : ext_calls[i].key = k

\* C31, as the specification implies it: apply-all called in a state other
\* than DMP_OPENED leaves the whole context as it was, accel_sens and
\* compass_sens with it.
C31_AsStated ==
    (/\ op.name = "inv_apply_calibration"
     /\ op.pre.state # INV_STATE_DMP_OPENED)
    => /\ inv_obj = op.pre.obj
       /\ inv_obj.accel_sens = op.pre.obj.accel_sens
       /\ inv_obj.compass_sens = op.pre.obj.compass_sens

\* C31, as the code has it: apply-all called with a known full-scale
\* setting in a state other than DMP_OPENED overwrites accel_sens with half
\* of the accelerometer range times 2^16 when an accelerometer is fitted and
\* compass_sens with the compass range times 2^15 when a compass is fitted,
\* whatever they were before; a sensitivity whose sensor is not fitted and
\* every other field of the context keep their values.
C31_SensitivitiesSetInEveryState ==
    (/\ op.name = "inv_apply_calibration"
     /\ cfg.full_scale \in {"MPU_FS_250DPS", "MPU_FS_500DPS",
                             "MPU_FS_1000DPS", "MPU_FS_2000DPS"}
     /\ op.pre.state # INV_STATE_DMP_OPENED)
    => /\ inv_obj.accel_sens =
             IF cfg.accel_present
             THEN FTrunc(FMul(RANGE_FIXEDPOINT_TO_FLOAT(cfg.accel_range),
                              FromInt(65536))) \div 2
             ELSE op.pre.obj.accel_sens
       /\ inv_obj.compass_sens =
             IF cfg.compass_present
             THEN FTrunc(FMul(RANGE_FIXEDPOINT_TO_FLOAT(cfg.compass_range),
                              FromInt(32768)))
             ELSE op.pre.obj.compass_sens
       /\ \A f \in DOMAIN inv_obj \ {"accel_sens", "compass_sens"} :
             inv_obj[f] = op.pre.obj[f]

\* apply-all was called below DMP_OPENED on a board with an accelerometer
\* and changed accel_sens
C31_Witness ==
    /\ op.name = "inv_apply_calibration"
    /\ op.pre.state < INV_STATE_DMP_OPENED
    /\ cfg.accel_present
    /\ op.res = INV_SUCCESS
    /\ inv_obj.accel_sens # op.pre.obj.accel_sens
    /\ inv_obj.accel_sens = 65536

====
